---- MODULE Spec2Model ----
(***************************************************************************)
(* Model of the batch organization engine of bookmark-manager-ai:          *)
(* the plan applier (applyOrganizationPlan and its helpers), the duplicate *)
(* detector, the response parsers and the parallel batch organizer.        *)
(*                                                                         *)
(* Strings that the code splits or joins on the path delimiter " > " are   *)
(* modelled as sequences of tokens: the token SEP stands for one           *)
(* occurrence of " > ", every other token for a piece of text that holds   *)
(* no delimiter.  "A > B" is <<"A", SEP, "B">>, "" is <<>>.                *)
(***************************************************************************)
EXTENDS Integers, Sequences, FiniteSets, TLC

VARIABLES
    \* plan applier (applyOrganizationPlan)
    tree,          \* currentBookmarks handed to applyOrganizationPlan
    plan,          \* the OrganizationPlan handed to it
    options,       \* its options: handleDuplicates
    result,        \* the tree returned by the first application
    moves2,        \* the moves collected by the second application
    result2,       \* the tree returned by the second application
    apc,           \* "ready" | "applied" | "reapplied"
    \* duplicate detector (BookmarkOrganizer.detectDuplicates)
    dupInput,      \* the flat bookmark list handed to detectDuplicates
    dupGroups,     \* the DuplicateGroup list it returned
    dupTree,       \* applyOrganizationPlan of the list under that plan
    dpc,           \* "ready" | "detected" | "merged"
    \* response parsers
    logs,          \* BookmarkOrganizer.logs, the ProcessingLog entries in order
    parseBatch,    \* the bookmarks of the batch a response answers
    parseResponse, \* response.text handed to parseBatchAISuggestions
    parseOut,      \* the suggestions it returned
    singleResponse,\* response.text handed to parseAISuggestion
    singleOut,     \* the suggestion it returned, in a list
    ppc,           \* "ready" | "parsed"
    \* batch organizer (BookmarkOrganizer)
    aiConfigs,     \* this.aiConfigs: the configuration registry
    aiConfigGroups,\* this.aiConfigGroups
    abortController, \* this.abortController: 0 for null, else the number of
                   \* the AbortController allocated last
    aborted,       \* the controllers whose signal is aborted
    orgTree,       \* bookmarks handed to organizeBookmarks
    orgOptions,    \* options handed to organizeBookmarks
    orgDuplicates, \* the duplicate groups organizeBookmarks detected
    batches,       \* the batches built by organizeBookmarksInParallel
    tasks,         \* one record per batch promise
    allSuggestions,\* the shared suggestion list
    processedCount,\* the shared counter of settled batches
    progress,      \* the arguments of the onProgress calls, in order
    orgPlan,       \* the plan organizeBookmarks resolved with, in a list
    opc,           \* "idle" | "awaiting" | "resolved" | "rejected" | "restarted"
    starts,        \* startOperation calls so far
    \* provider adapter and fetchWithRetry
    adapter,       \* the configuration the adapter was built for
    retries,       \* options.retries of the fetchWithRetry call
    attempt,       \* the loop variable of fetchWithRetry
    outcomes,      \* how each fetch attempt so far ended, in order
    fetchOut,      \* what fetchWithRetry returned or threw
    fpc,           \* "idle" | "fetching" | "backoff" | "returned" | "threw"
    genOut,        \* what generateContent resolved or rejected with
    gpc,           \* "idle" | "awaiting" | "resolved" | "rejected"
    \* model factory
    factoryConfigs,    \* configs handed to getGenerativeModel
    factoryActiveId,   \* activeId: <<>> when not given, else <<id>>
    factorySpecificId, \* specificId: <<>> when not given, else <<id>>
    factoryOut,        \* what getGenerativeModel returned or that it threw
    mpc,               \* "idle" | "done"
    \* helper functions of the organizer on their own
    helperTree,        \* the tree handed to the helper
    helperSuggestions, \* the suggestions handed to the helper
    helperHierarchy,   \* createHierarchy handed to generateFolderStructure
    helperOut,         \* what the helper returned
    hpc,               \* "idle" | "extracted" | "conflicts" | "folders"
    \* AiConfigProvider (the configuration store)
    ctxAiConfigs,          \* the state aiConfigs of the provider
    ctxAiConfigGroups,     \* the state aiConfigGroups of the provider
    activeAiConfigId,      \* <<>> for null, else <<id>>
    activeAiConfigGroupId, \* <<>> for null, else <<id>>
    configsAdded,          \* addAiConfig calls so far
    groupsAdded,           \* addAiConfigGroup calls so far
    xpc,                   \* "mounted", or "off" when the provider is not under check
    \* AiConfigModal (the configuration form) and the editing state of its parent
    editingAiConfig,       \* <<>> for null, else <<id of the configuration being edited>>
    formErrors,            \* the state errors of the form: the fields with a message
    \* AdvancedOrganizationModal with its useAiApi hook
    modalStep,             \* the state step: "config" | "analyzing" | "review"
    modalAbortController,  \* the state abortController: <<>> for null, else <<token>>
    isLoading,             \* the state isLoading of the hook
    processingLogs,        \* the state processingLogs, by message
    running,               \* token of the analysis in flight, 0 when there is none
    controllersMade,       \* startOperation calls so far; token n is the n-th
    abortedControllers,    \* the tokens abort() was called on
    lastHandler            \* the handler that ran last

applyVars == <<tree, plan, options, result, moves2, result2, apc>>

dupVars == <<dupInput, dupGroups, dupTree, dpc>>

parseVars == <<parseBatch, parseResponse, parseOut, singleResponse, singleOut, ppc>>

orgVars == <<aiConfigs, aiConfigGroups, abortController, aborted, orgTree, orgOptions,
             orgDuplicates, batches, tasks, allSuggestions, processedCount, progress, orgPlan, opc,
             starts>>

fetchVars == <<adapter, retries, attempt, outcomes, fetchOut, fpc, genOut, gpc>>

factoryVars == <<factoryConfigs, factoryActiveId, factorySpecificId, factoryOut, mpc>>

helperVars == <<helperTree, helperSuggestions, helperHierarchy, helperOut, hpc>>

ctxVars == <<ctxAiConfigs, ctxAiConfigGroups, activeAiConfigId, activeAiConfigGroupId,
             configsAdded, groupsAdded, xpc>>

formVars == <<editingAiConfig, formErrors>>

modalVars == <<modalStep, modalAbortController, isLoading, processingLogs, running,
               controllersMade, abortedControllers, lastHandler>>

vars == <<applyVars, dupVars, logs, parseVars, orgVars, fetchVars, factoryVars, helperVars, ctxVars, formVars, modalVars>>

None == "none"

----------------------------------------------------------------------------
(* Strings and paths *)

SEP == " > "

\* Array.prototype.join(' > ') over an array of strings
RECURSIVE JoinPath(_)
JoinPath(path) ==
    IF path = <<>> THEN <<>>
    ELSE IF Len(path) = 1 THEN path[1]
    ELSE path[1] \o <<SEP>> \o JoinPath(Tail(path))

\* String.prototype.split(' > '): always at least one segment
RECURSIVE SplitPath(_)
SplitPath(s) ==
    IF \A i \in 1..Len(s) : s[i] # SEP THEN <<s>>
    ELSE LET k == CHOOSE i \in 1..Len(s) :
                      s[i] = SEP /\ \A j \in 1..(i - 1) : s[j] # SEP
         IN  <<SubSeq(s, 1, k - 1)>> \o SplitPath(SubSeq(s, k + 1, Len(s)))

----------------------------------------------------------------------------
(* Bookmark trees (types.ts) *)

\* crypto.randomUUID() of a folder the applier creates: an opaque value that
\* no operation of the engine reads; bookmark ids are positive.
NewFolderId == 0

\* Values have no identity, so every node carries in owner who allocated the
\* object: Caller for a node of a tree the caller built, the number of an
\* allocation site of the applier for an object the applier created.
Caller == 0

Bookmark(i) ==
    [type |-> "bookmark", id |-> i, title |-> "T", url |-> "http://x.com/a",
     tags |-> <<>>, addDate |-> None, icon |-> None, owner |-> Caller]

Folder(fid, name, children) ==
    [type |-> "folder", id |-> fid, name |-> name, children |-> children,
     owner |-> Caller]

\* the owners of the node objects of a forest
RECURSIVE OwnersOf(_)
OwnersOf(nodes) ==
    IF nodes = <<>> THEN {}
    ELSE {Head(nodes).owner}
         \cup (IF Head(nodes).type = "folder" THEN OwnersOf(Head(nodes).children) ELSE {})
         \cup OwnersOf(Tail(nodes))

\* ids of the nodes of type bookmark, as a sequence in depth-first order
RECURSIVE BookmarkIdSeq(_)
BookmarkIdSeq(nodes) ==
    IF nodes = <<>> THEN <<>>
    ELSE LET n == Head(nodes) IN
         (IF n.type = "bookmark" THEN <<n.id>> ELSE BookmarkIdSeq(n.children))
         \o BookmarkIdSeq(Tail(nodes))

Range(s) == {s[i] : i \in 1..Len(s)}

Count(s, x) == Cardinality({i \in 1..Len(s) : s[i] = x})

\* the containing-folder path (folder names, root first) of each occurrence of
\* bookmark id in the forest
RECURSIVE PathsOf(_, _, _)
PathsOf(nodes, id, currentPath) ==
    IF nodes = <<>> THEN {}
    ELSE LET n == Head(nodes) IN
         (IF n.type = "bookmark"
              THEN (IF n.id = id THEN {currentPath} ELSE {})
              ELSE PathsOf(n.children, id, Append(currentPath, n.name)))
         \cup PathsOf(Tail(nodes), id, currentPath)

----------------------------------------------------------------------------
(* Plan applier *)

\* the allocation sites of the applier: the objects JSON.parse builds, and
\* the newFolder literals of addBookmarkToPath and ensureFolderPath
ParsedObject == 1

NewFolderObject == 2

\* removeDuplicates, the closure inside applyDuplicateMerging
RECURSIVE removeDuplicates(_, _)
removeDuplicates(nodes, duplicateIds) ==
    IF nodes = <<>> THEN <<>>
    ELSE LET n == Head(nodes)
             rest == removeDuplicates(Tail(nodes), duplicateIds)
         IN  IF n.type = "bookmark" /\ n.id \in duplicateIds THEN rest
             ELSE IF n.type = "folder"
                  THEN <<[n EXCEPT !.children =
                              removeDuplicates(n.children, duplicateIds)]>> \o rest
                  ELSE <<n>> \o rest

duplicateIdsOf(duplicates) ==
    UNION {{duplicates[g].duplicates[k].id : k \in 1..Len(duplicates[g].duplicates)}
              : g \in 1..Len(duplicates)}

applyDuplicateMerging(bookmarks, duplicates) ==
    removeDuplicates(bookmarks, duplicateIdsOf(duplicates))

\* new Map(suggestions.map(s => [s.bookmarkId, s])).get(id): the last entry
\* with the key wins; <<>> for undefined, <<s>> for a hit
suggestionMapGet(suggestions, id) ==
    LET hits == {i \in 1..Len(suggestions) : suggestions[i].bookmarkId = id}
    IN  IF hits = {} THEN <<>>
        ELSE <<suggestions[CHOOSE i \in hits : \A j \in hits : j <= i]>>

RECURSIVE collectMoves(_, _, _)

\* mutant: the comparison of the target with the current path is missing
collectMovesAlways(nodes, suggestions, currentPath) ==
    IF nodes = <<>> THEN <<>>
    ELSE LET n == Head(nodes)
             here ==
               IF n.type = "bookmark"
               THEN LET suggestion == suggestionMapGet(suggestions, n.id) IN
                    IF suggestion # <<>>
                    THEN <<[bookmark |-> n,
                            targetPath |-> SplitPath(suggestion[1].suggestedCategory)]>>
                    ELSE <<>>
               ELSE collectMoves(n.children, suggestions,
                                 Append(currentPath, n.name))
         IN  here \o collectMoves(Tail(nodes), suggestions, currentPath)

collectMoves(nodes, suggestions, currentPath) ==
    IF nodes = <<>> THEN <<>>
    ELSE LET n == Head(nodes)
             here ==
               IF n.type = "bookmark"
               THEN LET suggestion == suggestionMapGet(suggestions, n.id) IN
                    IF suggestion # <<>>
                       /\ JoinPath(SplitPath(suggestion[1].suggestedCategory))
                             # JoinPath(currentPath)
                    THEN <<[bookmark |-> n,
                            targetPath |-> SplitPath(suggestion[1].suggestedCategory)]>>
                    ELSE <<>>
               ELSE collectMoves(n.children, suggestions,
                                 Append(currentPath, n.name))
         IN  here \o collectMoves(Tail(nodes), suggestions, currentPath)

RECURSIVE removeBookmarkById(_, _)

\* mutant: the filter is applied to the top level only, folders are not entered
removeBookmarkByIdShallow(nodes, id) ==
    IF nodes = <<>> THEN <<>>
    ELSE LET n == Head(nodes)
             rest == removeBookmarkById(Tail(nodes), id)
         IN  IF n.type = "bookmark" /\ n.id = id THEN rest ELSE <<n>> \o rest

removeBookmarkById(nodes, id) ==
    IF nodes = <<>> THEN <<>>
    ELSE LET n == Head(nodes)
             rest == removeBookmarkById(Tail(nodes), id)
         IN  IF n.type = "bookmark" /\ n.id = id THEN rest
             ELSE IF n.type = "folder"
                  THEN <<[n EXCEPT !.children = removeBookmarkById(n.children, id)]>>
                       \o rest
                  ELSE <<n>> \o rest

\* mutant: the last folder of that name is taken
folderIndexLast(nodes, name) ==
    LET hits == {i \in 1..Len(nodes) :
                    nodes[i].type = "folder" /\ nodes[i].name = name}
    IN  IF hits = {} THEN 0 ELSE CHOOSE i \in hits : \A j \in hits : j <= i

\* nodes.findIndex(node => node.type === 'folder' && node.name === name),
\* 1-based, 0 for -1
folderIndex(nodes, name) ==
    LET hits == {i \in 1..Len(nodes) :
                    nodes[i].type = "folder" /\ nodes[i].name = name}
    IN  IF hits = {} THEN 0 ELSE CHOOSE i \in hits : \A j \in hits : i <= j

RECURSIVE addBookmarkToPath(_, _, _)

\* mutant: the bookmark is put before the children the folder has
addBookmarkToPathFront(nodes, bookmark, path) ==
    IF path = <<>> THEN <<bookmark>> \o nodes
    ELSE LET currentFolder == Head(path)
             remainingPath == Tail(path)
             idx == folderIndex(nodes, currentFolder)
         IN  IF idx = 0
             THEN Append(nodes,
                         [Folder(NewFolderId, currentFolder,
                                 addBookmarkToPath(<<>>, bookmark, remainingPath))
                             EXCEPT !.owner = NewFolderObject])
             ELSE [nodes EXCEPT ![idx].children =
                      addBookmarkToPath(nodes[idx].children, bookmark, remainingPath)]

addBookmarkToPath(nodes, bookmark, path) ==
    IF path = <<>> THEN Append(nodes, bookmark)
    ELSE LET currentFolder == Head(path)
             remainingPath == Tail(path)
             idx == folderIndex(nodes, currentFolder)
         IN  IF idx = 0
             THEN Append(nodes,
                         [Folder(NewFolderId, currentFolder,
                                 addBookmarkToPath(<<>>, bookmark, remainingPath))
                             EXCEPT !.owner = NewFolderObject])
             ELSE [nodes EXCEPT ![idx].children =
                      addBookmarkToPath(nodes[idx].children, bookmark, remainingPath)]

RECURSIVE ensureFolderPath(_, _)

\* mutant: a folder is created whether or not one of the name exists
ensureFolderPathAlways(nodes, path) ==
    IF path = <<>> THEN nodes
    ELSE Append(nodes,
                [Folder(NewFolderId, Head(path), ensureFolderPath(<<>>, Tail(path)))
                    EXCEPT !.owner = NewFolderObject])

ensureFolderPath(nodes, path) ==
    IF path = <<>> THEN nodes
    ELSE LET currentFolder == Head(path)
             remainingPath == Tail(path)
             idx == folderIndex(nodes, currentFolder)
         IN  IF idx = 0
             THEN Append(nodes,
                         [Folder(NewFolderId, currentFolder,
                                 ensureFolderPath(<<>>, remainingPath))
                             EXCEPT !.owner = NewFolderObject])
             ELSE [nodes EXCEPT ![idx].children =
                      ensureFolderPath(nodes[idx].children, remainingPath)]

RECURSIVE removeAll(_, _)
removeAll(nodes, moveBookmarks) ==
    IF moveBookmarks = <<>> THEN nodes
    ELSE removeAll(removeBookmarkById(nodes, Head(moveBookmarks).bookmark.id),
                   Tail(moveBookmarks))

RECURSIVE addAll(_, _)
addAll(nodes, moveBookmarks) ==
    IF moveBookmarks = <<>> THEN nodes
    ELSE addAll(addBookmarkToPath(nodes, Head(moveBookmarks).bookmark,
                                  Head(moveBookmarks).targetPath),
                Tail(moveBookmarks))

applySuggestions(bookmarks, suggestions) ==
    LET moveBookmarks == collectMoves(bookmarks, suggestions, <<>>)
    IN  addAll(removeAll(bookmarks, moveBookmarks), moveBookmarks)

RECURSIVE createFolderStructure(_, _)
createFolderStructure(bookmarks, newFolders) ==
    IF newFolders = <<>> THEN bookmarks
    ELSE createFolderStructure(ensureFolderPath(bookmarks, SplitPath(Head(newFolders))),
                               Tail(newFolders))

\* the tree after the duplicate step of applyOrganizationPlan
afterDuplicates(currentBookmarks, p, opts) ==
    IF opts.handleDuplicates = "merge"
    THEN applyDuplicateMerging(currentBookmarks, p.duplicates)
    ELSE currentBookmarks

\* JSON.parse(JSON.stringify(nodes)): every node is a new object with the same
\* properties (the nodes hold strings and arrays of strings and nodes only)
RECURSIVE jsonCopy(_)
jsonCopy(nodes) ==
    IF nodes = <<>> THEN <<>>
    ELSE LET node == Head(nodes)
             copy == IF node.type = "folder"
                     THEN [node EXCEPT !.owner = ParsedObject,
                                       !.children = jsonCopy(node.children)]
                     ELSE [node EXCEPT !.owner = ParsedObject]
         IN  <<copy>> \o jsonCopy(Tail(nodes))

\* mutant: the plan is applied to the tree of the caller
applyOrganizationPlanInPlace(currentBookmarks, p, opts) ==
    createFolderStructure(
        applySuggestions(afterDuplicates(currentBookmarks, p, opts), p.suggestions),
        p.newFolders)

applyOrganizationPlan(currentBookmarks, p, opts) ==
    createFolderStructure(
        applySuggestions(afterDuplicates(jsonCopy(currentBookmarks), p, opts),
                         p.suggestions),
        p.newFolders)

----------------------------------------------------------------------------
(* Duplicate detector *)

\* The URL strings of the inputs with what the string operations the detector
\* applies yield on each: norm is url.toLowerCase().trim(), host is
\* new URL(url).hostname.toLowerCase(), "throws" where the URL constructor
\* throws (a string without a scheme).  The constructor strips leading spaces.
UrlTable ==
    {[text |-> "http://x.com/a",   norm |-> "http://x.com/a", host |-> "x.com"],
     [text |-> " HTTP://x.com/a",  norm |-> "http://x.com/a", host |-> "x.com"],
     [text |-> "http://y.org/a",   norm |-> "http://y.org/a", host |-> "y.org"],
     [text |-> "x.com/a",          norm |-> "x.com/a",        host |-> "throws"],
     [text |-> "",                 norm |-> "",               host |-> "throws"]}

Urls == {u.text : u \in UrlTable}

toLowerCaseTrim(url) == (CHOOSE u \in UrlTable : u.text = url).norm

hostname(url) == (CHOOSE u \in UrlTable : u.text = url).host

\* the keys of an insertion-ordered Map filled in list order, in key order
RECURSIVE KeysInOrder(_)
KeysInOrder(keys) ==
    IF keys = <<>> THEN <<>>
    ELSE LET front == KeysInOrder(SubSeq(keys, 1, Len(keys) - 1))
             last == keys[Len(keys)]
         IN  IF last \in Range(front) THEN front ELSE Append(front, last)

RECURSIVE SelectSeqBy(_, _, _)
\* the elements b of s with key[b.id] = k, in order (Array.prototype.filter)
SelectSeqBy(s, key, k) ==
    IF s = <<>> THEN <<>>
    ELSE (IF key[Head(s).id] = k THEN <<Head(s)>> ELSE <<>>)
         \o SelectSeqBy(Tail(s), key, k)

RECURSIVE FilterOutId(_, _)
FilterOutId(s, id) ==
    IF s = <<>> THEN <<>>
    ELSE (IF Head(s).id # id THEN <<Head(s)>> ELSE <<>>) \o FilterOutId(Tail(s), id)

\* getBookmarkScore of services/ai/bookmarkOrganizer.ts: metadata completeness
getBookmarkScore(b) ==
    (IF b.title # "" THEN 2 ELSE 0)
    + (IF Len(b.tags) > 0 THEN 1 ELSE 0)
    + (IF b.addDate # None THEN 1 ELSE 0)
    + (IF b.icon # None THEN 1 ELSE 0)

\* the score selectPrimaryBookmark of the parallel organizer computes inline
primaryScore(b) == Len(b.title) + Len(b.tags)

\* mutant: the later member wins a tie
RECURSIVE selectPrimaryBookmark(_)
selectPrimaryBookmarkLastOnTie(bookmarks) ==
    IF Len(bookmarks) = 1 THEN bookmarks[1]
    ELSE LET primary == selectPrimaryBookmark(SubSeq(bookmarks, 1, Len(bookmarks) - 1))
             current == bookmarks[Len(bookmarks)]
         IN  IF primaryScore(current) >= primaryScore(primary) THEN current ELSE primary

\* bookmarks.reduce((primary, current) => ...), no initial value
selectPrimaryBookmark(bookmarks) ==
    IF Len(bookmarks) = 1 THEN bookmarks[1]
    ELSE LET primary == selectPrimaryBookmark(SubSeq(bookmarks, 1, Len(bookmarks) - 1))
             current == bookmarks[Len(bookmarks)]
         IN  IF primaryScore(current) > primaryScore(primary) THEN current ELSE primary

DuplicateGroup(primary, duplicates) ==
    [primaryBookmark |-> primary, duplicates |-> duplicates,
     mergeStrategy |-> "keep_primary"]

\* mutant: the key is the URL as written
urlKeyAsWritten(bookmarks) ==
    [id \in {b.id : b \in Range(bookmarks)} |->
        LET b == CHOOSE x \in Range(bookmarks) : x.id = id
        IN  IF b.url = "" THEN "skip" ELSE b.url]

\* the bookmarks the exact-URL pass files under each key, "" for a skipped one
urlKey(bookmarks) ==
    [id \in {b.id : b \in Range(bookmarks)} |->
        LET b == CHOOSE x \in Range(bookmarks) : x.id = id
        IN  IF b.url = "" THEN "skip" ELSE toLowerCaseTrim(b.url)]

domainKey(bookmarks) ==
    [id \in {b.id : b \in Range(bookmarks)} |->
        LET b == CHOOSE x \in Range(bookmarks) : x.id = id
        IN  IF b.url = "" \/ hostname(b.url) = "throws" THEN "skip"
            ELSE hostname(b.url)]

keysOf(bookmarks, key) ==
    KeysInOrder(SelectSeq([i \in 1..Len(bookmarks) |-> key[bookmarks[i].id]],
                          LAMBDA k : k # "skip"))

RECURSIVE urlGroups(_, _)
urlGroups(bookmarks, keys) ==
    IF keys = <<>> THEN <<>>
    ELSE LET bookmarkGroup == SelectSeqBy(bookmarks, urlKey(bookmarks), Head(keys))
             primary == selectPrimaryBookmark(bookmarkGroup)
         IN  (IF Len(bookmarkGroup) > 1
              THEN <<DuplicateGroup(primary, FilterOutId(bookmarkGroup, primary.id))>>
              ELSE <<>>)
             \o urlGroups(bookmarks, Tail(keys))

\* the exact-URL pass
urlPass(bookmarks) == urlGroups(bookmarks, keysOf(bookmarks, urlKey(bookmarks)))

\* the comparator of the domain pass: negative when a sorts before b
domainCompare(a, b) ==
    IF Len(a.url) # Len(b.url) THEN Len(a.url) - Len(b.url)
    ELSE IF Len(a.title) # Len(b.title) THEN Len(b.title) - Len(a.title)
    ELSE Len(b.tags) - Len(a.tags)

\* Array.prototype.sort with the comparator: stable
RECURSIVE sortByDomainCompare(_)
sortByDomainCompare(s) ==
    IF s = <<>> THEN <<>>
    ELSE LET sorted == sortByDomainCompare(SubSeq(s, 1, Len(s) - 1))
             x == s[Len(s)]
             k == Cardinality({i \in 1..Len(sorted) : domainCompare(sorted[i], x) <= 0})
         IN  SubSeq(sorted, 1, k) \o <<x>> \o SubSeq(sorted, k + 1, Len(sorted))

RECURSIVE domainGroups(_, _)
domainGroups(bookmarks, keys) ==
    IF keys = <<>> THEN <<>>
    ELSE LET bookmarkGroup == SelectSeqBy(bookmarks, domainKey(bookmarks), Head(keys))
             sortedBookmarks == sortByDomainCompare(bookmarkGroup)
         IN  (IF Len(bookmarkGroup) > 1
              THEN <<DuplicateGroup(sortedBookmarks[1], Tail(sortedBookmarks))>>
              ELSE <<>>)
             \o domainGroups(bookmarks, Tail(keys))

\* the domain pass
domainPass(bookmarks) ==
    domainGroups(bookmarks, keysOf(bookmarks, domainKey(bookmarks)))

detectDuplicates(bookmarks) == urlPass(bookmarks) \o domainPass(bookmarks)

----------------------------------------------------------------------------
(* Response parsers *)

(* A model response is what JSON.parse makes of response.text:
     [kind |-> "garbage"]   JSON.parse throws
     [kind |-> "object"]    valid JSON that is not an array
     [kind |-> "array", fence |-> the line that opens the code fence the
      text wraps the array in (its tag and its line ending), or NoFence,
      items |-> the array's objects]
   A field of an object is <<>> when absent and <<v>> when present.  A
   confidence is a number of tenths: 15 is 1.5, -2 is -0.2. *)

Uncategorized == <<"Uncategorized">>

\* addLog(level, message): the entry pushed; the message is reduced to its
\* kind and to the batch number it names (0 when it names none)
BatchLog(level, what, batch) == [level |-> level, what |-> what, batch |-> batch]

Log(level, what) == BatchLog(level, what, 0)

\* Math.max(0, Math.min(1, x)), in tenths
clamp01(x) == IF x < 0 THEN 0 ELSE IF x > 10 THEN 10 ELSE x

\* value || fallback for an optional string: absent and "" are falsy
orDefault(field, fallback) ==
    IF field = <<>> \/ field[1] = <<>> THEN fallback ELSE field[1]

\* item.confidence || 0: absent and 0 are falsy
confidenceOrZero(field) == IF field = <<>> THEN 0 ELSE field[1]

knownBookmark(item, bookmarks) ==
    item.bookmarkId # <<>> /\ \E i \in 1..Len(bookmarks) : bookmarks[i].id = item.bookmarkId[1]

\* mutant: the raw confidence is copied
batchSuggestionRaw(item) ==
    [bookmarkId |-> item.bookmarkId[1],
     suggestedCategory |-> orDefault(item.category, Uncategorized),
     confidence |-> confidenceOrZero(item.confidence),
     reasoning |-> orDefault(item.reasoning, <<"Batch AI-generated suggestion">>),
     suggestedTags |-> IF item.tags = <<>> THEN <<>> ELSE item.tags[1]]

\* the object the map callback of parseBatchAISuggestions returns for a known id
batchSuggestion(item) ==
    [bookmarkId |-> item.bookmarkId[1],
     suggestedCategory |-> orDefault(item.category, Uncategorized),
     confidence |-> clamp01(confidenceOrZero(item.confidence)),
     reasoning |-> orDefault(item.reasoning, <<"Batch AI-generated suggestion">>),
     suggestedTags |-> IF item.tags = <<>> THEN <<>> ELSE item.tags[1]]

\* parsed.map(...).filter(s => s !== null) with the warnings it logs, in order
RECURSIVE mapItems(_, _)
mapItems(items, bookmarks) ==
    IF items = <<>> THEN [suggestions |-> <<>>, logs |-> <<>>]
    ELSE LET rest == mapItems(Tail(items), bookmarks)
             item == Head(items)
         IN  IF knownBookmark(item, bookmarks)
             THEN [suggestions |-> <<batchSuggestion(item)>> \o rest.suggestions,
                   logs |-> rest.logs]
             ELSE [suggestions |-> rest.suggestions,
                   logs |-> <<Log("warning", "unknown bookmarkId")>> \o rest.logs]

\* a text with no fence around the array
NoFence == [tag |-> "none", eol |-> "none"]

\* the line that opens a fence, as the tag after the three backticks and the
\* line ending after the tag; this one is the opening the pattern asks for
JsonFence == [tag |-> "json", eol |-> "LF"]

\* the other openings of a fenced block: no tag, and a carriage return before
\* the line feed
Fences == {JsonFence, [tag |-> "", eol |-> "LF"], [tag |-> "json", eol |-> "CRLF"]}

\* mutant: the fence is never taken off
jsonMatchNever(response) == FALSE

\* response.match(/```json\n([\s\S]*?)\n```/): the pattern asks for the tag json
\* and a line feed right after it
jsonMatch(response) == response.kind = "array" /\ response.fence = JsonFence

\* jsonMatch ? jsonMatch[1] : response
jsonString(response) ==
    IF jsonMatch(response) THEN [response EXCEPT !.fence = NoFence] ELSE response

\* JSON.parse(jsonString.trim()) followed by the Array.isArray test: <<items>>
\* for an array, <<>> when either throws; the backticks of a fence left in
\* the text are no JSON
parsedArray(response) ==
    LET text == jsonString(response)
    IN  IF text.kind = "array" /\ text.fence = NoFence THEN <<text.items>> ELSE <<>>

\* mutant: a response that does not parse is dropped without a log entry
parseBatchAISuggestionsSilent(response, bookmarks) ==
    IF parsedArray(response) # <<>>
    THEN mapItems(parsedArray(response)[1], bookmarks)
    ELSE [suggestions |-> <<>>, logs |-> <<>>]

\* mutant: an entry with an unknown bookmarkId fails the whole response
parseBatchAISuggestionsAllOrNothing(response, bookmarks) ==
    IF parsedArray(response) # <<>>
       /\ \A i \in 1..Len(response.items) : knownBookmark(response.items[i], bookmarks)
    THEN mapItems(parsedArray(response)[1], bookmarks)
    ELSE [suggestions |-> <<>>, logs |-> <<Log("error", "parse failed")>>]

\* parseBatchAISuggestions: the suggestions returned and the entries logged
parseBatchAISuggestions(response, bookmarks) ==
    IF parsedArray(response) # <<>>
    THEN mapItems(parsedArray(response)[1], bookmarks)
    ELSE [suggestions |-> <<>>, logs |-> <<Log("error", "parse failed")>>]

(* The response of the one-bookmark parser, parseAISuggestion:
     [kind |-> "json", category, confidence, reasoning, tags]: a JSON object
     [kind |-> "text", category, confidence]: not JSON; category is what the
       text gives after `category:` in quotes, confidence the numeral it gives
       after `confidence:`, as [negative |-> whether a minus sign leads it,
       tenths |-> its digits as a number of tenths] *)

\* response.match(/confidence\s*:\s*([0-9.]+)/i): the class [0-9.] takes no
\* sign, so a negative numeral is no match; parseFloat of the digits otherwise
confidenceMatch(field) ==
    IF field = <<>> \/ field[1].negative THEN <<>> ELSE <<field[1].tenths>>

parseAISuggestion(response, bookmarkId) ==
    IF response.kind = "json"
    THEN [bookmarkId |-> bookmarkId,
          suggestedCategory |-> orDefault(response.category, Uncategorized),
          confidence |-> clamp01(confidenceOrZero(response.confidence)),
          reasoning |-> orDefault(response.reasoning, <<"AI-generated suggestion">>),
          suggestedTags |-> IF response.tags = <<>> THEN <<>> ELSE response.tags[1]]
    ELSE [bookmarkId |-> bookmarkId,
          suggestedCategory |->
              IF response.category = <<>> THEN Uncategorized ELSE response.category[1],
          confidence |->
              IF confidenceMatch(response.confidence) = <<>> THEN 5
              ELSE confidenceMatch(response.confidence)[1],
          reasoning |-> <<"Parsed from AI response">>,
          suggestedTags |-> <<>>]

----------------------------------------------------------------------------
(* Inputs of the plan applier *)

MaxNodes == 3

BookmarkIds == {1, 2}

FolderNames == {<<"A">>, <<"A", SEP, "B">>}

Categories == {<<>>, <<"A">>, <<"B">>, <<"A", SEP, "B">>}

\* forests of exactly k nodes, folders nested at most d deep
RECURSIVE ForestsOfSize(_, _)
RECURSIVE NodesOfSize(_, _)
NodesOfSize(k, d) ==
    (IF k = 1 THEN {Bookmark(i) : i \in BookmarkIds} ELSE {})
    \cup (IF d > 0
          THEN {Folder(-1, name, ch) :
                   name \in FolderNames, ch \in ForestsOfSize(k - 1, d - 1)}
          ELSE {})

ForestsOfSize(k, d) ==
    IF k = 0 THEN {<<>>}
    ELSE UNION {{<<n>> \o rest : n \in NodesOfSize(j, d),
                                 rest \in ForestsOfSize(k - j, d)} : j \in 1..k}

UniqueBookmarkIds(nodes) ==
    LET ids == BookmarkIdSeq(nodes) IN \A i \in Range(ids) : Count(ids, i) = 1

\* input folders numbered -1, -2, ... in depth-first order: ids unique in the tree
RECURSIVE LabelForest(_, _)
LabelForest(nodes, next) ==
    IF nodes = <<>> THEN [nodes |-> <<>>, next |-> next]
    ELSE LET n == Head(nodes) IN
         IF n.type = "bookmark"
         THEN LET r == LabelForest(Tail(nodes), next)
              IN  [nodes |-> <<n>> \o r.nodes, next |-> r.next]
         ELSE LET c == LabelForest(n.children, next - 1)
                  r == LabelForest(Tail(nodes), c.next)
              IN  [nodes |-> <<Folder(next, n.name, c.nodes)>> \o r.nodes,
                   next |-> r.next]

Trees ==
    {LabelForest(t, -1).nodes :
        t \in {f \in UNION {ForestsOfSize(k, 2) : k \in 0..MaxNodes} :
                  UniqueBookmarkIds(f)}}

Suggestion(id, category) ==
    [bookmarkId |-> id, suggestedCategory |-> category, confidence |-> 9,
     reasoning |-> "r", suggestedTags |-> <<>>]

SuggestionLists ==
    UNION {[1..n -> {Suggestion(i, c) : i \in BookmarkIds, c \in Categories}]
              : n \in 0..2}

\* duplicate groups as the applier reads them: the ids of group.duplicates
DuplicateLists ==
    {<<>>} \cup
    {<<[primaryBookmark |-> Bookmark(p), duplicates |-> <<Bookmark(d)>>,
        mergeStrategy |-> "keep_primary"]>> : p \in BookmarkIds, d \in BookmarkIds}

NewFolderLists == {<<>>, <<<<"B">>, <<"A", SEP, "B">>>>}

Plans ==
    {[suggestions |-> s, duplicates |-> d, newFolders |-> f] :
        s \in SuggestionLists, d \in DuplicateLists, f \in NewFolderLists}

\* with handleDuplicates = keep_all the duplicate groups are not read: one
\* non-empty list stands for all
ApplyIdle ==
    /\ tree = <<>> /\ plan = <<>> /\ options = <<>> /\ result = <<>>
    /\ moves2 = <<>> /\ result2 = <<>> /\ apc = "off"

DupIdle ==
    dupInput = <<>> /\ dupGroups = <<>> /\ dupTree = <<>> /\ dpc = "off"

NoResponse == [kind |-> "none"]

ParseIdle ==
    /\ parseBatch = <<>> /\ parseResponse = NoResponse /\ parseOut = <<>>
    /\ singleResponse = NoResponse /\ singleOut = <<>> /\ ppc = "off"

OrgIdle ==
    /\ aiConfigs = <<>> /\ aiConfigGroups = <<>> /\ abortController = 0
    /\ aborted = {} /\ orgTree = <<>> /\ orgOptions = <<>> /\ batches = <<>>
    /\ orgDuplicates = <<>>
    /\ tasks = <<>> /\ allSuggestions = <<>> /\ processedCount = 0
    /\ progress = <<>> /\ orgPlan = <<>> /\ opc = "off" /\ starts = 0

ModalIdle ==
    /\ modalStep = "off" /\ modalAbortController = <<>> /\ isLoading = FALSE
    /\ processingLogs = <<>> /\ running = 0 /\ controllersMade = 0
    /\ abortedControllers = {} /\ lastHandler = "none"

FormIdle ==
    /\ editingAiConfig = <<>> /\ formErrors = {}

CtxIdle ==
    /\ ctxAiConfigs = <<>> /\ ctxAiConfigGroups = <<>>
    /\ activeAiConfigId = <<>> /\ activeAiConfigGroupId = <<>>
    /\ configsAdded = 0 /\ groupsAdded = 0 /\ xpc = "off"

HelperIdle ==
    /\ helperTree = <<>> /\ helperSuggestions = <<>> /\ helperHierarchy = FALSE
    /\ helperOut = <<>> /\ hpc = "off"

FactoryIdle ==
    /\ factoryConfigs = <<>> /\ factoryActiveId = <<>> /\ factorySpecificId = <<>>
    /\ factoryOut = <<>> /\ mpc = "off"

FetchIdle ==
    /\ adapter = <<>> /\ retries = 0 /\ attempt = 0 /\ outcomes = <<>>
    /\ fetchOut = <<>> /\ fpc = "off" /\ genOut = <<>> /\ gpc = "off"

InitApply ==
    /\ DupIdle /\ ParseIdle /\ OrgIdle /\ FetchIdle /\ FactoryIdle /\ HelperIdle /\ CtxIdle /\ FormIdle /\ ModalIdle /\ logs = <<>>
    /\ tree \in Trees
    /\ plan \in Plans
    /\ options \in {[handleDuplicates |-> h] : h \in {"merge", "keep_all"}}
    /\ options.handleDuplicates = "keep_all"
          => plan.duplicates = <<[primaryBookmark |-> Bookmark(1),
                                  duplicates |-> <<Bookmark(2)>>,
                                  mergeStrategy |-> "keep_primary"]>>
    /\ result = <<>>
    /\ moves2 = <<>>
    /\ result2 = <<>>
    /\ apc = "ready"

\* applyOrganizationPlan(tree, plan, options)
ApplyPlan ==
    /\ apc = "ready"
    /\ result' = applyOrganizationPlan(tree, plan, options)
    /\ apc' = "applied"
    /\ UNCHANGED <<tree, plan, options, moves2, result2, dupVars, logs, parseVars, orgVars, fetchVars,
                   factoryVars, helperVars, ctxVars, formVars, modalVars>>

\* applyOrganizationPlan(result, plan, options): the same plan applied again
ApplyPlanAgain ==
    /\ apc = "applied"
    /\ moves2' = collectMoves(afterDuplicates(jsonCopy(result), plan, options),
                              plan.suggestions, <<>>)
    /\ result2' = applyOrganizationPlan(result, plan, options)
    /\ apc' = "reapplied"
    /\ UNCHANGED <<tree, plan, options, result, dupVars, logs, parseVars, orgVars, fetchVars,
                   factoryVars, helperVars, ctxVars, formVars, modalVars>>

NextApply == ApplyPlan \/ ApplyPlanAgain

SpecApply == InitApply /\ [][NextApply]_vars

\* the moves the first application collected
moves1 ==
    collectMoves(afterDuplicates(jsonCopy(tree), plan, options), plan.suggestions, <<>>)

(* C1: every bookmark id of the input tree that no DuplicateGroup of the plan
   lists among its duplicates occurs exactly once in the tree returned by
   applyOrganizationPlan, and no bookmark id occurs there more than once. *)
C1_NoBookmarkLostOrDoubled ==
    apc \in {"applied", "reapplied"} =>
        /\ \A id \in Range(BookmarkIdSeq(tree)) \ duplicateIdsOf(plan.duplicates) :
              Count(BookmarkIdSeq(result), id) = 1
        /\ \A id \in Range(BookmarkIdSeq(result)) :
              /\ Count(BookmarkIdSeq(result), id) = 1
              /\ id \in Range(BookmarkIdSeq(tree))

\* two bookmarks were moved by the remove-then-reinsert step, out of a folder,
\* while the other step removed nothing they depend on
C1_Witness ==
    /\ apc = "applied"
    /\ Len(moves1) = 2
    /\ \E id \in Range(BookmarkIdSeq(tree)) : PathsOf(tree, id, <<>>) # {<<>>}
    /\ Range(BookmarkIdSeq(result)) = BookmarkIds

(* C7: the second application of the same plan collects no move, and every
   bookmark has the same containing-folder path after the second application
   as after the first. *)
C7_SecondApplicationMovesNothing ==
    apc = "reapplied" =>
        /\ moves2 = <<>>
        /\ \A id \in BookmarkIds :
              PathsOf(result2, id, <<>>) = PathsOf(result, id, <<>>)

\* the first application did move a bookmark, into a folder it had to create,
\* and the plan was applied a second time
C7_Witness ==
    /\ apc = "reapplied"
    /\ moves1 # <<>>
    /\ \E m \in Range(moves1) : folderIndex(tree, Head(m.targetPath)) = 0
    /\ \E id \in BookmarkIds : PathsOf(result2, id, <<>>) \notin {{}, {<<>>}}

(* C26: a call of applyOrganizationPlan leaves the tree and the plan it was
   given as they were, and no node object of the tree it returns is a node
   object of the tree it was given. *)
C26_InputUntouched ==
    /\ [][(apc = "ready" /\ apc' = "applied") => (tree' = tree /\ plan' = plan)]_vars
    /\ [](apc = "applied" => OwnersOf(result) \cap OwnersOf(tree) = {})

\* a plan that moves one bookmark into a folder the applier creates and leaves
\* the other bookmark where it is
C26_Witness ==
    /\ apc = "applied"
    /\ Len(moves1) = 1
    /\ Range(BookmarkIdSeq(result)) = BookmarkIds
    /\ OwnersOf(tree) = {Caller}
    /\ OwnersOf(result) = {ParsedObject, NewFolderObject}

\* the bookmarks of the input that the duplicate step leaves in the tree
survivors ==
    Range(BookmarkIdSeq(tree))
    \ (IF options.handleDuplicates = "merge" THEN duplicateIdsOf(plan.duplicates) ELSE {})

suggestionsFor(id) ==
    SelectSeq(plan.suggestions, LAMBDA suggestion : suggestion.bookmarkId = id)

movedIds == {moves1[k].bookmark.id : k \in 1..Len(moves1)}

\* bookmark id is a child of the folder reached from nodes by taking, for each
\* name of path, the first child folder of that name
RECURSIVE sitsAtFirstMatch(_, _, _)
sitsAtFirstMatch(nodes, id, path) ==
    IF path = <<>>
    THEN \E i \in 1..Len(nodes) : nodes[i].type = "bookmark" /\ nodes[i].id = id
    ELSE \E i \in 1..Len(nodes) :
            /\ nodes[i].type = "folder" /\ nodes[i].name = Head(path)
            /\ \A j \in 1..(i - 1) :
                  \lnot (nodes[j].type = "folder" /\ nodes[j].name = Head(path))
            /\ sitsAtFirstMatch(nodes[i].children, id, Tail(path))

\* in every list of children, a folder the applier created stands after every
\* folder that was there before and has the name of no folder before it
RECURSIVE createdWhereMissing(_)
createdWhereMissing(nodes) ==
    /\ \A j \in 1..Len(nodes) :
          (nodes[j].type = "folder" /\ nodes[j].owner = NewFolderObject) =>
              /\ \A i \in 1..(j - 1) :
                    nodes[i].type = "folder" => nodes[i].name # nodes[j].name
              /\ \A i \in (j + 1)..Len(nodes) :
                    nodes[i].type = "folder" => nodes[i].owner = NewFolderObject
    /\ \A j \in 1..Len(nodes) :
          nodes[j].type = "folder" => createdWhereMissing(nodes[j].children)

(* C31: after applyOrganizationPlan every bookmark that survives the duplicate
   step and has exactly one suggestion is in one place, under folders whose
   names joined by ' > ' are the suggested category; a bookmark that was moved
   is in the folder reached by taking the first folder of each segment's
   name, and a folder is created only where no folder of the name exists,
   after the folders that were there. *)
C31_BookmarkAtSuggestedPath ==
    apc = "applied" =>
        /\ \A id \in survivors :
              Len(suggestionsFor(id)) = 1 =>
                  LET category == suggestionsFor(id)[1].suggestedCategory IN
                  /\ \E path \in PathsOf(result, id, <<>>) :
                        /\ PathsOf(result, id, <<>>) = {path}
                        /\ JoinPath(path) = category
                  /\ id \in movedIds => sitsAtFirstMatch(result, id, SplitPath(category))
        /\ createdWhereMissing(result)

\* bookmark 1 was moved under A > B: the first of two folders A was reused
\* and B was created in it
C31_Witness ==
    /\ apc = "applied"
    /\ Len(tree) = 3
    /\ tree[1].type = "folder" /\ tree[1].name = <<"A">> /\ tree[1].children = <<>>
    /\ tree[2].type = "folder" /\ tree[2].name = <<"A">>
    /\ tree[3].type = "bookmark" /\ tree[3].id = 1
    /\ plan.suggestions = <<Suggestion(1, <<"A", SEP, "B">>)>>
    /\ plan.newFolders = <<>>
    /\ Len(result) = 2
    /\ Len(result[1].children) = 1
    /\ result[1].children[1].name = <<"B">>
    /\ result[1].children[1].owner = NewFolderObject
    /\ result[1].children[1].children[1].id = 1
    /\ result[2].children = <<>>

\* a node of the input that the applier neither removes nor moves
stays(node) ==
    node.type = "folder" \/ (node.id \in survivors /\ node.id \notin movedIds)

\* outNodes begins with the nodes of inNodes that stay, in their order, each
\* folder among them with the same property for its children, and goes on
\* with moved bookmarks and created folders only
RECURSIVE orderKept(_, _)
orderKept(inNodes, outNodes) ==
    LET kept == SelectSeq(inNodes, stays)
    IN  /\ Len(outNodes) >= Len(kept)
        /\ \A i \in 1..Len(kept) :
              /\ outNodes[i].type = kept[i].type
              /\ outNodes[i].id = kept[i].id
              /\ kept[i].type = "folder" =>
                    orderKept(kept[i].children, outNodes[i].children)
        /\ \A i \in (Len(kept) + 1)..Len(outNodes) :
              \/ outNodes[i].type = "bookmark" /\ outNodes[i].id \in movedIds
              \/ outNodes[i].type = "folder" /\ outNodes[i].owner = NewFolderObject

(* C32: the nodes of a list of children that applyOrganizationPlan neither
   removes as duplicates nor moves are in the same list of the result in the
   same order, and every moved bookmark and every created folder stands after
   them. *)
C32_DisplayOrderKept ==
    apc = "applied" => orderKept(tree, result)

\* bookmark 1 was moved into folder A, behind bookmark 2, which stayed there
C32_Witness ==
    /\ apc = "applied"
    /\ Len(tree) = 2
    /\ tree[1].type = "bookmark" /\ tree[1].id = 1
    /\ tree[2].type = "folder" /\ Len(tree[2].children) = 1
    /\ tree[2].children[1].id = 2
    /\ movedIds = {1}
    /\ Len(result) = 1
    /\ Len(result[1].children) = 2
    /\ result[1].children[1].id = 2 /\ result[1].children[2].id = 1

\* the forest holds folders named as path, each a child of the one before
RECURSIVE chainExists(_, _)
chainExists(nodes, path) ==
    path = <<>> \/ \E i \in 1..Len(nodes) :
                      /\ nodes[i].type = "folder" /\ nodes[i].name = Head(path)
                      /\ chainExists(nodes[i].children, Tail(path))

\* the folders of a forest in depth-first order, each as the names from the
\* root down to it
RECURSIVE folderPaths(_, _)
folderPaths(nodes, currentPath) ==
    IF nodes = <<>> THEN <<>>
    ELSE LET n == Head(nodes) IN
         (IF n.type = "folder"
          THEN <<Append(currentPath, n.name)>>
               \o folderPaths(n.children, Append(currentPath, n.name))
          ELSE <<>>)
         \o folderPaths(Tail(nodes), currentPath)

(* C33: after applyOrganizationPlan every path of the plan's newFolders is a
   chain of folders of the result, and applying the plan again to the result
   creates no folder: the second result has the folders of the first. *)
C33_NewFoldersExistOnce ==
    /\ apc \in {"applied", "reapplied"} =>
          \A k \in 1..Len(plan.newFolders) :
              chainExists(result, SplitPath(plan.newFolders[k]))
    /\ apc = "reapplied" =>
          /\ NewFolderObject \notin OwnersOf(result2)
          /\ folderPaths(result2, <<>>) = folderPaths(result, <<>>)

\* the first application created B at the root and A with B in it for the
\* plan's newFolders, and the plan was applied again
C33_Witness ==
    /\ apc = "reapplied"
    /\ tree = <<Bookmark(1)>>
    /\ plan.suggestions = <<>>
    /\ plan.newFolders = <<<<"B">>, <<"A", SEP, "B">>>>
    /\ folderPaths(result, <<>>) = <<<<<<"B">>>>, <<<<"A">>>>, <<<<"A">>, <<"B">>>>>>
    /\ folderPaths(result2, <<>>) = folderPaths(result, <<>>)
    /\ OwnersOf(result) = {ParsedObject, NewFolderObject}

----------------------------------------------------------------------------
(* The duplicate detector and the merge of its groups *)

MaxDupBookmarks == 2

Titles == {"", "A", "A copy"}

TagLists == {<<>>, <<"t", "u">>}

\* addDate and icon, absent or present
Metadata == {[addDate |-> None, icon |-> None], [addDate |-> "1700000000", icon |-> "i"]}

\* the lists of n bookmarks with ids 1..n
BookmarkLists(n) ==
    {[i \in 1..n |->
        [type |-> "bookmark", id |-> i, title |-> f[i].title, url |-> f[i].url,
         tags |-> f[i].tags, addDate |-> f[i].meta.addDate, icon |-> f[i].meta.icon,
         owner |-> Caller]] :
     f \in [1..n -> [title : Titles, url : Urls, tags : TagLists, meta : Metadata]]}

InitDup ==
    /\ ApplyIdle /\ ParseIdle /\ OrgIdle /\ FetchIdle /\ FactoryIdle /\ HelperIdle /\ CtxIdle /\ FormIdle /\ ModalIdle /\ logs = <<>>
    /\ \E n \in 0..MaxDupBookmarks : dupInput \in BookmarkLists(n)
    /\ dupGroups = <<>>
    /\ dupTree = <<>>
    /\ dpc = "ready"

\* detectDuplicates(allBookmarks), as organizeBookmarks calls it
DetectDuplicates ==
    /\ dpc = "ready"
    /\ dupGroups' = detectDuplicates(dupInput)
    /\ dpc' = "detected"
    /\ UNCHANGED <<dupInput, dupTree, applyVars, logs, parseVars, orgVars, fetchVars, factoryVars,
                   helperVars, ctxVars, formVars, modalVars>>

\* applyOrganizationPlan of the bookmarks under a plan that carries the groups
MergeDuplicates ==
    /\ dpc = "detected"
    /\ dupTree' = applyOrganizationPlan(dupInput,
                     [suggestions |-> <<>>, duplicates |-> dupGroups,
                      newFolders |-> <<>>],
                     [handleDuplicates |-> "merge"])
    /\ dpc' = "merged"
    /\ UNCHANGED <<dupInput, dupGroups, applyVars, logs, parseVars, orgVars, fetchVars, factoryVars,
                   helperVars, ctxVars, formVars, modalVars>>

NextDup == DetectDuplicates \/ MergeDuplicates

SpecDup == InitDup /\ [][NextDup]_vars

\* the members of the exact-URL group of bookmark b, in list order
urlMembers(b) == SelectSeqBy(dupInput, urlKey(dupInput), urlKey(dupInput)[b.id])

\* the first member with the highest metadata-completeness score
bestByMetadata(members) ==
    members[CHOOSE i \in 1..Len(members) :
               /\ \A j \in 1..Len(members) :
                     getBookmarkScore(members[j]) <= getBookmarkScore(members[i])
               /\ \A j \in 1..(i - 1) :
                     getBookmarkScore(members[j]) < getBookmarkScore(members[i])]

(* C5: the primary of every group of the exact-URL pass is the first member
   with the highest metadata-completeness score (2 for a title, 1 each for
   tags, addDate, icon); so for b1 titled "A" and b2 titled "A copy" with the
   same URL and no other metadata the single group has primary b1. *)
C5_PrimaryByMetadataScore ==
    dpc \in {"detected", "merged"} =>
        \A k \in 1..Len(urlPass(dupInput)) :
            dupGroups[k].primaryBookmark =
                bestByMetadata(urlMembers(dupGroups[k].primaryBookmark))

(* C6: the primaryBookmark of every DuplicateGroup that detectDuplicates
   returned is present in the tree that applyOrganizationPlan returns with
   handleDuplicates = merge. *)
C6_PrimaryRetained ==
    dpc = "merged" =>
        \A k \in 1..Len(dupGroups) :
            dupGroups[k].primaryBookmark.id \in Range(BookmarkIdSeq(dupTree))

----------------------------------------------------------------------------
(* The parsers on bounded responses *)

MaxItems == 2

Opt(S) == {<<>>} \cup {<<x>> : x \in S}

RawConfidences == {-2, 5, 15}

\* the batch of the parsed response holds bookmarks 1 and 2; 3 is a bookmark
\* of another batch
ItemIds == {1, 2, 3}

\* an entry follows the prompt (suggestedCategory, reasoning, tags), or uses
\* the field name category and gives no more, or gives no category at all
Items ==
    {[bookmarkId |-> id, category |-> c.category,
      suggestedCategory |-> c.suggestedCategory, confidence |-> conf,
      reasoning |-> c.reasoning, tags |-> c.tags] :
        id \in Opt(ItemIds),
        c \in {[category |-> <<>>, suggestedCategory |-> <<<<"Tech", SEP, "AI">>>>,
                reasoning |-> <<<<"because">>>>, tags |-> <<<<"ai">>>>],
               [category |-> <<<<"Tech">>>>, suggestedCategory |-> <<>>,
                reasoning |-> <<>>, tags |-> <<>>],
               [category |-> <<>>, suggestedCategory |-> <<>>,
                reasoning |-> <<>>, tags |-> <<>>]},
        conf \in Opt(RawConfidences)}

BatchResponses ==
    {[kind |-> "garbage"], [kind |-> "object"]}
    \cup {[kind |-> "array", fence |-> f, items |-> items] :
             f \in {NoFence} \cup Fences, items \in UNION {[1..n -> Items] : n \in 0..MaxItems}}

SingleResponses ==
    {[kind |-> "json", category |-> c, confidence |-> conf,
      reasoning |-> <<>>, tags |-> <<>>] :
        c \in Opt({<<"Tech">>}), conf \in Opt(RawConfidences)}
    \cup {[kind |-> "text", category |-> c, confidence |-> conf] :
             c \in Opt({<<"Tech">>}),
             conf \in Opt({[negative |-> n, tenths |-> t] :
                              n \in BOOLEAN, t \in {2, 5, 15}})}

InitParse ==
    /\ ApplyIdle /\ DupIdle /\ OrgIdle /\ FetchIdle /\ FactoryIdle /\ HelperIdle /\ CtxIdle /\ FormIdle /\ ModalIdle
    /\ logs = <<>>
    /\ parseBatch = <<Bookmark(1), Bookmark(2)>>
    /\ \/ parseResponse \in BatchResponses /\ singleResponse = NoResponse
       \/ parseResponse = NoResponse /\ singleResponse \in SingleResponses
    /\ parseOut = <<>>
    /\ singleOut = <<>>
    /\ ppc = "ready"

\* parseBatchAISuggestions(response.text, batch)
ParseBatchResponse ==
    /\ ppc = "ready"
    /\ parseResponse # NoResponse
    /\ LET r == parseBatchAISuggestions(parseResponse, parseBatch)
       IN  /\ parseOut' = r.suggestions
           /\ logs' = logs \o r.logs
    /\ ppc' = "parsed"
    /\ UNCHANGED <<parseBatch, parseResponse, singleResponse, singleOut,
                   applyVars, dupVars, orgVars, fetchVars, factoryVars, helperVars,
                   ctxVars, formVars, modalVars>>

\* parseAISuggestion(response.text, bookmark.id)
ParseSingleResponse ==
    /\ ppc = "ready"
    /\ singleResponse # NoResponse
    /\ singleOut' = <<parseAISuggestion(singleResponse, parseBatch[1].id)>>
    /\ ppc' = "parsed"
    /\ UNCHANGED <<parseBatch, parseResponse, parseOut, singleResponse, logs,
                   applyVars, dupVars, orgVars, fetchVars, factoryVars, helperVars,
                   ctxVars, formVars, modalVars>>

NextParse == ParseBatchResponse \/ ParseSingleResponse

SpecParse == InitParse /\ [][NextParse]_vars

\* the text is an array, fenced or not
isArrayText == parseResponse.kind = "array"

\* JSON.parse gave an array
isArray == parsedArray(parseResponse) # <<>>

\* the entries of the response whose bookmarkId is the id of a bookmark of the batch
acceptedItems ==
    SelectSeq(parseResponse.items, LAMBDA item : knownBookmark(item, parseBatch))

rejectedItems ==
    SelectSeq(parseResponse.items, LAMBDA item : ~knownBookmark(item, parseBatch))

(* C2: for every entry the batch parser accepts, the suggestion's
   suggestedCategory is the value of the entry's suggestedCategory field when
   the entry has one, and it is the default category only when that field is
   absent. *)
C2_CategoryFromPromptedField ==
    (ppc = "parsed" /\ isArray) =>
        /\ Len(parseOut) = Len(acceptedItems)
        /\ \A k \in 1..Len(parseOut) :
              /\ acceptedItems[k].suggestedCategory # <<>> =>
                    parseOut[k].suggestedCategory = acceptedItems[k].suggestedCategory[1]
              /\ parseOut[k].suggestedCategory = Uncategorized =>
                    acceptedItems[k].suggestedCategory = <<>>

(* C4: every suggestion produced by the batch parser, by the strict JSON tier
   or by the regex fallback tier has a confidence within [0, 1]. *)
C4_ConfidenceWithinUnitInterval ==
    ppc = "parsed" =>
        \A s \in Range(parseOut) \cup Range(singleOut) :
            0 <= s.confidence /\ s.confidence <= 10

(* C10: every suggestion the parser returns references a bookmark of the
   batch; each entry whose bookmarkId is not the id of a bookmark of the batch
   is dropped with one warning log entry; the other entries are kept, one
   suggestion each, in the order of the response. *)
C10_UnknownIdsDroppedOthersKept ==
    (ppc = "parsed" /\ isArray) =>
        /\ \A s \in Range(parseOut) : \E b \in Range(parseBatch) : b.id = s.bookmarkId
        /\ Len(parseOut) = Len(acceptedItems)
        /\ \A k \in 1..Len(parseOut) :
              parseOut[k].bookmarkId = acceptedItems[k].bookmarkId[1]
        /\ Len(SelectSeq(logs, LAMBDA l : l.level = "warning")) = Len(rejectedItems)
        /\ \A l \in Range(logs) : l.level = "warning"

\* a response whose first entry names a bookmark of another batch and whose
\* second entry is valid: one suggestion, one warning
C10_Witness ==
    /\ ppc = "parsed" /\ isArray
    /\ Len(parseResponse.items) = 2
    /\ parseResponse.items[1].bookmarkId = <<3>>
    /\ parseResponse.items[2].bookmarkId = <<2>>
    /\ Len(parseOut) = 1 /\ parseOut[1].bookmarkId = 2
    /\ logs = <<Log("warning", "unknown bookmarkId")>>

\* the entries name the bookmarks of the batch, each once
oneEntryPerBookmark ==
    /\ isArrayText
    /\ Len(parseResponse.items) = Len(parseBatch)
    /\ \A b \in 1..Len(parseBatch) :
        \E i \in 1..Len(parseResponse.items) :
            parseResponse.items[i].bookmarkId = <<parseBatch[b].id>>

everyEntryAccepted ==
    /\ Len(parseOut) = Len(parseBatch)
    /\ \A k \in 1..Len(parseOut) :
        parseOut[k].bookmarkId = parseResponse.items[k].bookmarkId[1]

(* C28: when the response wraps a JSON array with one entry per bookmark of
   the batch in a fence opened by the tag json and a line feed, the parser
   returns one suggestion per bookmark of the batch, in the order of the
   array. *)
C28_JsonFenceAccepted ==
    (ppc = "parsed" /\ oneEntryPerBookmark /\ parseResponse.fence = JsonFence) =>
        everyEntryAccepted

(* C28 as stated: the same for every fenced code block, whatever the line
   that opens it. *)
C28_AnyFenceAccepted ==
    (ppc = "parsed" /\ oneEntryPerBookmark /\ parseResponse.fence \in Fences) =>
        everyEntryAccepted

\* a json fence around the entries of bookmarks 2 and 1: two suggestions, for
\* 2 and then for 1
C28_Witness ==
    /\ ppc = "parsed" /\ oneEntryPerBookmark
    /\ parseResponse.fence = JsonFence
    /\ parseResponse.items[1].bookmarkId = <<2>>
    /\ Len(parseOut) = 2
    /\ parseOut[1].bookmarkId = 2 /\ parseOut[2].bookmarkId = 1
    /\ logs = <<>>


----------------------------------------------------------------------------
(* The parallel batch organizer (BookmarkOrganizer of part_007) *)

AiConfig(id) == [id |-> id, name |-> id, provider |-> "gemini", isDefault |-> FALSE]

AiConfigGroup(id, aiConfigIds) == [id |-> id, name |-> id, aiConfigIds |-> aiConfigIds]

\* Array.prototype.find by id: the first element with that id, in a list
RECURSIVE findById(_, _)
findById(s, id) ==
    IF s = <<>> THEN <<>>
    ELSE IF Head(s).id = id THEN <<Head(s)>> ELSE findById(Tail(s), id)

\* configs.find(c => c.isDefault)
RECURSIVE findDefault(_)
findDefault(configs) ==
    IF configs = <<>> THEN <<>>
    ELSE IF Head(configs).isDefault THEN <<Head(configs)>> ELSE findDefault(Tail(configs))

\* a ?? b on optional values
orElse(a, b) == IF a # <<>> THEN a ELSE b

\* the providers the switch of getGenerativeModel has a case for
AdapterProviders ==
    {"openai", "gemini", "openrouter", "anthropic", "ollama", "azure", "grok", "custom"}

\* the Error getGenerativeModel throws, by its message
Thrown(error) == [threw |-> TRUE, id |-> None, provider |-> None, error |-> error]

\* the adapter a provider module builds for cfg: its id is cfg.id
Adapter(cfg) == [threw |-> FALSE, id |-> cfg.id, provider |-> cfg.provider, error |-> None]

\* mutant: an id that names no configuration falls back to the first one
adapterForFirstOnStale(configs, idToUse) ==
    LET cfg == IF idToUse = <<>> THEN <<>> ELSE findById(configs, idToUse[1])
    IN  IF idToUse = <<>> \/ idToUse[1] = "" THEN Thrown("No AiConfig available")
        ELSE IF cfg = <<>>
        THEN IF configs = <<>> THEN Thrown("AiConfig not found")
             ELSE IF configs[1].provider \notin AdapterProviders
             THEN Thrown("Unsupported provider")
             ELSE Adapter(configs[1])
        ELSE IF cfg[1].provider \notin AdapterProviders THEN Thrown("Unsupported provider")
        ELSE Adapter(cfg[1])

\* what getGenerativeModel does with the id it has chosen: it throws when the
\* id is falsy, names no configuration or names one of a provider without a
\* case; else it returns the adapter built for cfg
adapterFor(configs, idToUse) ==
    LET cfg == IF idToUse = <<>> THEN <<>> ELSE findById(configs, idToUse[1])
    IN  IF idToUse = <<>> \/ idToUse[1] = "" THEN Thrown("No AiConfig available")
        ELSE IF cfg = <<>> THEN Thrown("AiConfig not found")
        ELSE IF cfg[1].provider \notin AdapterProviders THEN Thrown("Unsupported provider")
        ELSE Adapter(cfg[1])

\* mutant: the active id goes before the explicit id
getGenerativeModelActiveFirst(configs, activeId, specificId) ==
    LET default == findDefault(configs)
        first == IF configs = <<>> THEN <<>> ELSE <<configs[1].id>>
    IN  adapterFor(configs,
            orElse(activeId,
              orElse(specificId,
                orElse(IF default = <<>> THEN <<>> ELSE <<default[1].id>>, first))))

\* getGenerativeModel(configs, activeId, specificId): an optional id is <<>>
\* or <<id>>; the result is [threw |-> TRUE] or the adapter built for cfg
getGenerativeModel(configs, activeId, specificId) ==
    LET default == findDefault(configs)
        first == IF configs = <<>> THEN <<>> ELSE <<configs[1].id>>
    IN  adapterFor(configs,
            orElse(specificId,
              orElse(activeId,
                orElse(IF default = <<>> THEN <<>> ELSE <<default[1].id>>, first))))

\* mutant: the path of a nested folder starts anew at that folder
RECURSIVE traverseParentOnly(_, _)
traverseParentOnly(nodes, currentPath) ==
    IF nodes = <<>> THEN <<>>
    ELSE LET node == Head(nodes) IN
         (IF node.type = "bookmark"
          THEN <<node @@ [currentPath |-> JoinPath(currentPath)]>>
          ELSE traverseParentOnly(node.children, <<node.name>>))
         \o traverseParentOnly(Tail(nodes), currentPath)

\* extractBookmarks: the bookmarks of the tree in depth-first order, each
\* with the joined names of its containing folders as currentPath
RECURSIVE traverse(_, _)
traverse(nodes, currentPath) ==
    IF nodes = <<>> THEN <<>>
    ELSE LET node == Head(nodes) IN
         (IF node.type = "bookmark"
          THEN <<node @@ [currentPath |-> JoinPath(currentPath)]>>
          ELSE traverse(node.children, Append(currentPath, node.name)))
         \o traverse(Tail(nodes), currentPath)

extractBookmarks(nodes) == traverse(nodes, <<>>)

\* Array.prototype.slice(start, end) with 0 <= start
\* Array.prototype.slice: a negative index counts from the end, and both ends
\* are clamped to the list
sliceIndex(len, k) ==
    IF k < 0 THEN (IF len + k < 0 THEN 0 ELSE len + k)
    ELSE IF k < len THEN k ELSE len

slice(list, start, end) ==
    SubSeq(list, sliceIndex(Len(list), start) + 1, sliceIndex(Len(list), end))

\* mutant: the loop stops before a batch that is not full
RECURSIVE fullBatchesFrom(_, _, _)
fullBatchesFrom(bookmarksToProcess, batchSize, i) ==
    IF i + batchSize > Len(bookmarksToProcess) THEN <<>>
    ELSE <<slice(bookmarksToProcess, i, i + batchSize)>>
         \o fullBatchesFrom(bookmarksToProcess, batchSize, i + batchSize)

\* the loop for (let i = 0; i < length; i += batchSize), from counter value i
RECURSIVE batchesFrom(_, _, _)
batchesFrom(bookmarksToProcess, batchSize, i) ==
    IF ~(i < Len(bookmarksToProcess)) THEN <<>>
    ELSE <<slice(bookmarksToProcess, i, i + batchSize)>>
         \o batchesFrom(bookmarksToProcess, batchSize, i + batchSize)

\* mutant: every batch goes to the first configuration of the group
configIdFirst(group, index) == group.aiConfigIds[1]

\* group.aiConfigIds[index % group.aiConfigIds.length], index 0-based
configIdOf(group, index) ==
    group.aiConfigIds[(index % Len(group.aiConfigIds)) + 1]

\* s => s.confidence >= confidenceThreshold
RECURSIVE validSuggestions(_, _)
validSuggestions(batchSuggestions, confidenceThreshold) ==
    IF batchSuggestions = <<>> THEN <<>>
    ELSE (IF Head(batchSuggestions).confidence >= confidenceThreshold
          THEN <<Head(batchSuggestions)>> ELSE <<>>)
         \o validSuggestions(Tail(batchSuggestions), confidenceThreshold)

Root == <<"Root">>

\* buildLocationMap: the currentLocations.set calls in order, as pairs
RECURSIVE buildLocationMap(_, _)
buildLocationMap(nodes, path) ==
    IF nodes = <<>> THEN <<>>
    ELSE LET node == Head(nodes) IN
         (IF node.type = "bookmark"
          THEN <<[id |-> node.id,
                  location |-> IF JoinPath(path) = <<>> THEN Root ELSE JoinPath(path)]>>
          ELSE buildLocationMap(node.children, Append(path, node.name)))
         \o buildLocationMap(Tail(nodes), path)

\* currentLocations.get(id) || 'Root': the last set for a key wins
RECURSIVE currentLocationOf(_, _)
currentLocationOf(entries, id) ==
    IF entries = <<>> THEN Root
    ELSE IF entries[Len(entries)].id = id THEN entries[Len(entries)].location
    ELSE currentLocationOf(SubSeq(entries, 1, Len(entries) - 1), id)

RECURSIVE conflictsOf(_, _)
conflictsOf(suggestions, currentLocations) ==
    IF suggestions = <<>> THEN <<>>
    ELSE LET suggestion == Head(suggestions)
             currentLocation == currentLocationOf(currentLocations, suggestion.bookmarkId)
         IN  (IF currentLocation # suggestion.suggestedCategory
              THEN <<[bookmarkId |-> suggestion.bookmarkId,
                      currentCategory |-> currentLocation,
                      suggestedCategory |-> suggestion.suggestedCategory,
                      confidence |-> suggestion.confidence]>>
              ELSE <<>>)
             \o conflictsOf(Tail(suggestions), currentLocations)

identifyConflicts(suggestions, currentBookmarks) ==
    conflictsOf(suggestions, buildLocationMap(currentBookmarks, <<>>))

\* the loop of identifyConflicts in services/ai/bookmarkOrganizer.ts: a
\* conflict needs a confidence above 0.8 as well
RECURSIVE conflictsOfGated(_, _)
conflictsOfGated(suggestions, currentLocations) ==
    IF suggestions = <<>> THEN <<>>
    ELSE LET suggestion == Head(suggestions)
             currentLocation == currentLocationOf(currentLocations, suggestion.bookmarkId)
             suggestedLocation == suggestion.suggestedCategory
         IN  (IF currentLocation # suggestedLocation /\ suggestion.confidence > 8
              THEN <<[bookmarkId |-> suggestion.bookmarkId,
                      currentCategory |-> currentLocation,
                      suggestedCategory |-> suggestedLocation,
                      confidence |-> suggestion.confidence]>>
              ELSE <<>>)
             \o conflictsOfGated(Tail(suggestions), currentLocations)

\* identifyConflicts of services/ai/bookmarkOrganizer.ts
identifyConflictsGated(suggestions, currentBookmarks) ==
    conflictsOfGated(suggestions, buildLocationMap(currentBookmarks, <<>>))

\* the order of UTF-16 code units on the pieces of text the model uses: the
\* pieces start with different characters, and the space of " > " is lowest
TokenRank(token) ==
    CASE token = SEP -> 0
      [] token = "AI" -> 1
      [] token = "Dev" -> 2
      [] token = "Tech" -> 3
      [] token = "Uncategorized" -> 4
      [] OTHER -> 5

\* a < b in the default order of Array.prototype.sort (strings by code units)
RECURSIVE StringLess(_, _)
StringLess(a, b) ==
    IF b = <<>> THEN FALSE
    ELSE IF a = <<>> THEN TRUE
    ELSE IF Head(a) = Head(b) THEN StringLess(Tail(a), Tail(b))
    ELSE TokenRank(Head(a)) < TokenRank(Head(b))

\* the strings of a set in ascending order
RECURSIVE sort(_)
sort(S) ==
    IF S = {} THEN <<>>
    ELSE LET least == CHOOSE x \in S : \A y \in S \ {x} : StringLess(x, y)
         IN  <<least>> \o sort(S \ {least})

\* mutant: only the path of all parts is added
partPathsLeafOnly(parts, currentPath) == {JoinPath(parts)}

\* the paths that the loop over parts adds, from the value of currentPath
RECURSIVE partPaths(_, _)
partPaths(parts, currentPath) ==
    IF parts = <<>> THEN {}
    ELSE LET next == IF currentPath # <<>>
                     THEN currentPath \o <<SEP>> \o Head(parts)
                     ELSE Head(parts)
         IN  {next} \cup partPaths(Tail(parts), next)

generateFolderStructure(suggestions, createHierarchy) ==
    sort(UNION {IF createHierarchy
                THEN partPaths(SplitPath(suggestions[i].suggestedCategory), <<>>)
                ELSE {suggestions[i].suggestedCategory} : i \in 1..Len(suggestions)})

----------------------------------------------------------------------------
(* The organizer on bounded inputs *)

MaxOrgBookmarks == 3

MaxBatchSize == 2

MaxConfigs == 2

MaxStarts == 2

ConfigIdList == <<"c1", "c2", "c3", "c4">>

\* bookmark 2 has a URL of its own, the others share one
OrgBookmark(i) ==
    [Bookmark(i) EXCEPT !.url = IF i = 2 THEN "http://y.org/a" ELSE "http://x.com/a"]

RECURSIVE OrgBookmarks(_, _)
OrgBookmarks(from, to) ==
    IF from > to THEN <<>> ELSE <<OrgBookmark(from)>> \o OrgBookmarks(from + 1, to)

\* n bookmarks at the root, or bookmark 2 in a folder that precedes bookmark 1
OrgTrees ==
    {OrgBookmarks(1, n) : n \in 0..MaxOrgBookmarks}
    \cup {<<Folder(-1, <<"Tech">>, <<OrgBookmark(2)>>), OrgBookmark(1)>>}

\* duplicate detection is left on (the default) but for batches of one
OrgOptions ==
    {[groupId |-> g, batchSize |-> k, createHierarchy |-> TRUE,
      detectDuplicates |-> (k > 1), confidenceThreshold |-> 5] :
        g \in {"g1", "g2"}, k \in 1..MaxBatchSize}

\* the registry of the first n configuration ids: Gemini and OpenAI in turn
Registry(n) ==
    [i \in 1..n |->
        [AiConfig(ConfigIdList[i]) EXCEPT
            !.provider = IF i % 2 = 1 THEN "gemini" ELSE "openai"]]

\* one group, g1, of the first m configuration ids
GroupList(m) == <<AiConfigGroup("g1", SubSeq(ConfigIdList, 1, m))>>

\* an entry that follows the prompt
PromptedItem(id) ==
    [bookmarkId |-> <<id>>, category |-> <<>>,
     suggestedCategory |-> <<<<"Tech", SEP, "AI">>>>, confidence |-> <<9>>,
     reasoning |-> <<<<"because">>>>, tags |-> <<<<"ai">>>>]

\* an entry that names its category in the field category
LegacyItem(id, category, confidence) ==
    [bookmarkId |-> <<id>>, category |-> <<category>>, suggestedCategory |-> <<>>,
     confidence |-> <<confidence>>, reasoning |-> <<>>, tags |-> <<>>]

Reverse(s) == [i \in 1..Len(s) |-> s[Len(s) + 1 - i]]

\* the id of a bookmark that is not in the batch
ForeignId(batch) ==
    LET others == (1..(MaxOrgBookmarks + 1)) \ {batch[i].id : i \in 1..Len(batch)}
    IN  CHOOSE id \in others : \A other \in others : id <= other

\* the responses a provider gives for a batch: unparseable text; one prompted
\* entry per bookmark, in batch order, in a fence; or an entry for a bookmark
\* of no batch, then entries in reverse batch order, the first bookmark with
\* confidence 0.3 and the others 1.5, then a second entry for the last bookmark
ResponsesFor(batch) ==
    {[kind |-> "garbage"],
     [kind |-> "array", fence |-> JsonFence,
      items |-> [i \in 1..Len(batch) |-> PromptedItem(batch[i].id)]],
     [kind |-> "array", fence |-> NoFence,
      items |-> <<LegacyItem(ForeignId(batch), <<"Dev">>, 9)>>
                \o Reverse([i \in 1..Len(batch) |->
                              LegacyItem(batch[i].id, <<"Dev">>, IF i = 1 THEN 3 ELSE 15)])
                \o <<LegacyItem(batch[Len(batch)].id, <<"Tech">>, 9)>>
                \o (IF Len(batch) > 1 THEN <<LegacyItem(batch[1].id, <<"Tech">>, 9)>>
                    ELSE <<>>)]}

InitOrg ==
    /\ ApplyIdle /\ DupIdle /\ ParseIdle /\ FetchIdle /\ FactoryIdle /\ HelperIdle /\ CtxIdle /\ FormIdle /\ ModalIdle
    /\ logs = <<>>
    \* the registry holds every id of the group, or misses the last one
    /\ \/ /\ aiConfigs = Registry(MaxConfigs)
          /\ \E m \in 0..MaxConfigs : aiConfigGroups = GroupList(m)
       \/ /\ aiConfigs = Registry(MaxConfigs - 1)
          /\ aiConfigGroups = GroupList(MaxConfigs)
    /\ abortController = 0
    /\ aborted = {}
    /\ orgTree = <<>> /\ orgOptions = <<>> /\ orgDuplicates = <<>>
    /\ batches = <<>> /\ tasks = <<>> /\ allSuggestions = <<>>
    /\ processedCount = 0 /\ progress = <<>> /\ orgPlan = <<>>
    /\ opc = "idle" /\ starts = 0

\* the body of startOperation() (on the live token of an organizer whose
\* call has not been made, a repeat leaves the same state but for the
\* token's number; the model takes the repeats that follow a cancel).
\* After the call has settled its locals are gone, and the organizer is
\* left "restarted".
startOperationFrom(controller) ==
    /\ \/ opc = "idle" /\ (abortController = 0 \/ abortController \in aborted)
       \/ opc \in {"resolved", "rejected"}
    /\ starts < MaxStarts
    /\ starts' = starts + 1
    /\ abortController' = controller
    /\ logs' = <<Log("info", "starting")>>
    /\ IF opc = "idle"
       THEN UNCHANGED <<orgTree, orgOptions, orgDuplicates, batches, tasks, allSuggestions,
                        processedCount, progress, orgPlan, opc>>
       ELSE /\ orgTree' = <<>> /\ orgOptions' = <<>> /\ orgDuplicates' = <<>>
            /\ batches' = <<>> /\ tasks' = <<>> /\ allSuggestions' = <<>>
            /\ processedCount' = 0 /\ progress' = <<>> /\ orgPlan' = <<>>
            /\ opc' = "restarted"
    /\ UNCHANGED <<aiConfigs, aiConfigGroups, aborted, applyVars, dupVars, parseVars,
                   fetchVars, factoryVars, helperVars, ctxVars, formVars, modalVars>>

\* mutant: startOperation keeps the controller it has
StartOperationKeepsController ==
    startOperationFrom(IF abortController = 0 THEN 1 ELSE abortController)

\* startOperation(): a new AbortController, numbered by the count of calls
StartOperation == startOperationFrom(starts + 1)

\* cancelOperation(), at any moment before the plan is returned: the modal
\* offers the cancel button while an analysis runs.  On a controller that is
\* aborted already a further call only repeats the warning entry; the model
\* takes the first call on each controller.
CancelOperation ==
    /\ opc \in {"idle", "awaiting"}
    /\ abortController \notin aborted
    /\ IF abortController # 0
       THEN /\ aborted' = aborted \cup {abortController}
            /\ logs' = Append(logs, Log("warning", "cancelled by user"))
       ELSE UNCHANGED <<aborted, logs>>
    /\ UNCHANGED <<aiConfigs, aiConfigGroups, abortController, orgTree, orgOptions,
                   orgDuplicates, batches, tasks, allSuggestions, processedCount,
                   progress, orgPlan, opc, starts, applyVars, dupVars, parseVars, fetchVars,
                   factoryVars, helperVars, ctxVars, formVars, modalVars>>

\* mutant: only a missing group is refused
invalidGroupMissingOnly(group) == group = <<>>

\* !group || group.aiConfigIds.length === 0, on the result of find
invalidGroup(group) == group = <<>> \/ Len(group[1].aiConfigIds) = 0

\* no signal: the value of this.abortController?.signal without a controller,
\* and of the signal member of an init that has none
NoSignal == 0

\* the AbortController fetchWithRetry creates for an attempt (fetchWrapper.ts
\* line 24), numbered below zero by the request it serves; the controllers of
\* operations are numbered from 1
TransportController(index) == 0 - (index + 1)

\* the options an adapter hands to its transport for generateContent(prompt,
\* opts): method, headers and body.  opts is spread into the body that is
\* serialised; no member of opts reaches the options, so they hold no signal.
transportOptions(opts) == [signal |-> NoSignal]

\* the adapters that send their request through fetchWithRetry: all but the
\* Gemini adapter, which calls the SDK
usesFetchWithRetry(provider) == provider # "gemini"

\* { ...fetchOptions, signal: controller.signal }, the init of the fetch call
fetchInit(fetchOptions, controller) == [fetchOptions EXCEPT !.signal = controller]

\* the signal of the transport's fetch call for generateContent(prompt, opts)
\* of the adapter of that provider, request index 0-based.  The Gemini adapter
\* calls the SDK with model and contents only; the others call fetchWithRetry.
fetchSignalOf(provider, opts, index) ==
    IF \lnot usesFetchWithRetry(provider) THEN NoSignal
    ELSE fetchInit(transportOptions(opts), TransportController(index)).signal

\* mutant: a batch closure that does not look at the cancellation signal
dispatchUnchecked(index, total, group) ==
    LET configId == configIdOf(group, index)
        model == getGenerativeModel(aiConfigs, <<configId>>, <<>>)
    IN  IF model.threw
        THEN [task |-> [state |-> "threw", configId |-> configId, modelId |-> None,
                        signal |-> abortController, fetchSignal |-> NoSignal,
                        response |-> NoResponse],
              logs |-> <<>>]
        ELSE [task |-> [state |-> "inflight", configId |-> configId,
                        modelId |-> model.id, signal |-> abortController,
                        fetchSignal |->
                            fetchSignalOf(model.provider, [signal |-> abortController],
                                          index),
                        response |-> NoResponse],
              logs |-> <<BatchLog("info", "processing batch", index + 1)>>]

\* the synchronous part of one batch closure, index 0-based: the task it
\* leaves and the entries it logs.
\*   skipped:  returned at the cancellation check
\*   threw:    getGenerativeModel threw, before the try block
\*   inflight: model.generateContent was called and is awaited
dispatch(index, total, group) ==
    IF abortController # 0 /\ abortController \in aborted
    THEN [task |-> [state |-> "skipped", configId |-> None, modelId |-> None,
                    signal |-> abortController, fetchSignal |-> NoSignal,
                    response |-> NoResponse],
          logs |-> <<BatchLog("warning", "batch skipped", index + 1)>>]
    ELSE LET configId == configIdOf(group, index)
             model == getGenerativeModel(aiConfigs, <<configId>>, <<>>)
         IN  IF model.threw
             THEN [task |-> [state |-> "threw", configId |-> configId, modelId |-> None,
                             signal |-> abortController, fetchSignal |-> NoSignal,
                             response |-> NoResponse],
                   logs |-> <<>>]
             ELSE [task |-> [state |-> "inflight", configId |-> configId,
                             modelId |-> model.id, signal |-> abortController,
                             fetchSignal |->
                                 fetchSignalOf(model.provider,
                                               [signal |-> abortController], index),
                             response |-> NoResponse],
                   logs |-> <<BatchLog("info", "processing batch", index + 1)>>]

RECURSIVE Flatten(_)
Flatten(lists) == IF lists = <<>> THEN <<>> ELSE Head(lists) \o Flatten(Tail(lists))

\* organizeBookmarks(bookmarks, options) up to its first await: extraction,
\* duplicate detection, and all of organizeBookmarksInParallel down to
\* Promise.allSettled, every batch closure run to its own first await
OrganizeBookmarks ==
    /\ opc = "idle"
    /\ \E bookmarks \in OrgTrees, o \in OrgOptions :
        LET allBookmarks == extractBookmarks(bookmarks)
            found == IF o.detectDuplicates THEN detectDuplicates(allBookmarks) ELSE <<>>
            logs1 == logs \o <<Log("info", "options"), Log("info", "extracted")>>
                     \o (IF o.detectDuplicates THEN <<Log("info", "duplicates detected")>>
                         ELSE <<>>)
            group == findById(aiConfigGroups, o.groupId)
        IN  /\ orgTree' = bookmarks
            /\ orgOptions' = o
            /\ orgDuplicates' = found
            /\ IF invalidGroup(group)
               THEN /\ logs' = Append(logs1, Log("error", "group not found or empty"))
                    /\ opc' = "rejected"
                    /\ UNCHANGED <<batches, tasks, progress>>
               ELSE LET built == batchesFrom(allBookmarks, o.batchSize, 0)
                        started == [i \in 1..Len(built) |->
                                       dispatch(i - 1, Len(built), group[1])]
                    IN  /\ batches' = built
                        /\ progress' = <<[processed |-> 0, total |-> Len(built)]>>
                        /\ tasks' = [i \in 1..Len(built) |-> started[i].task]
                        /\ logs' = Append(logs1, Log("info", "split"))
                                   \o Flatten([i \in 1..Len(built) |-> started[i].logs])
                        /\ opc' = "awaiting"
    /\ UNCHANGED <<aiConfigs, aiConfigGroups, abortController, aborted, allSuggestions,
                   processedCount, orgPlan, starts, applyVars, dupVars, parseVars, fetchVars,
                   factoryVars, helperVars, ctxVars, formVars, modalVars>>

\* the finally block of a batch closure
finally(total) ==
    /\ processedCount' = processedCount + 1
    /\ progress' = Append(progress, [processed |-> processedCount + 1, total |-> total])

\* mutant: the list is written back from what the batch itself contributes, as
\* if every closure had read the list before its await
BatchResolvesLostUpdate(i, response) ==
    /\ opc = "awaiting"
    /\ tasks[i].state = "inflight"
    /\ LET parsed == parseBatchAISuggestions(response, batches[i])
           valid == validSuggestions(parsed.suggestions, orgOptions.confidenceThreshold)
       IN  /\ allSuggestions' = valid
           /\ logs' = logs \o parsed.logs \o <<BatchLog("success", "batch processed", i)>>
    /\ tasks' = [tasks EXCEPT ![i].state = "ok", ![i].response = response]
    /\ finally(Len(batches))
    /\ UNCHANGED <<aiConfigs, aiConfigGroups, abortController, aborted, orgTree, orgOptions,
                   orgDuplicates, batches, orgPlan, opc, starts,
                   applyVars, dupVars, parseVars, fetchVars, factoryVars, helperVars,
                   ctxVars, formVars, modalVars>>

\* model.generateContent of batch i (1-based) resolves with response
BatchResolves(i, response) ==
    /\ opc = "awaiting"
    /\ tasks[i].state = "inflight"
    /\ LET parsed == parseBatchAISuggestions(response, batches[i])
           valid == validSuggestions(parsed.suggestions, orgOptions.confidenceThreshold)
       IN  /\ allSuggestions' = allSuggestions \o valid
           /\ logs' = logs \o parsed.logs \o <<BatchLog("success", "batch processed", i)>>
    /\ tasks' = [tasks EXCEPT ![i].state = "ok", ![i].response = response]
    /\ finally(Len(batches))
    /\ UNCHANGED <<aiConfigs, aiConfigGroups, abortController, aborted, orgTree, orgOptions,
                   orgDuplicates, batches, orgPlan, opc, starts,
                   applyVars, dupVars, parseVars, fetchVars, factoryVars, helperVars,
                   ctxVars, formVars, modalVars>>

\* mutant: a rejected batch discards what the other batches contributed
BatchRejectsDropsSiblings(i, name) ==
    /\ opc = "awaiting"
    /\ tasks[i].state = "inflight"
    /\ name = "AbortError" => tasks[i].fetchSignal = TransportController(i - 1)
    /\ logs' = Append(logs, BatchLog("error", IF name = "AbortError" THEN "batch cancelled"
                                               ELSE "batch error", i))
    /\ tasks' = [tasks EXCEPT ![i].state = "failed",
                              ![i].response = [kind |-> "rejected", name |-> name]]
    /\ allSuggestions' = <<>>
    /\ finally(Len(batches))
    /\ UNCHANGED <<aiConfigs, aiConfigGroups, abortController, aborted, orgTree, orgOptions,
                   orgDuplicates, batches, orgPlan, opc, starts,
                   applyVars, dupVars, parseVars, fetchVars, factoryVars, helperVars,
                   ctxVars, formVars, modalVars>>

\* model.generateContent of batch i (1-based) rejects with an error of that
\* name; an AbortError is the timeout of the controller fetchWithRetry made for
\* the request, whether the operation was cancelled or not
BatchRejects(i, name) ==
    /\ opc = "awaiting"
    /\ tasks[i].state = "inflight"
    /\ name = "AbortError" => tasks[i].fetchSignal = TransportController(i - 1)
    /\ logs' = Append(logs, BatchLog("error", IF name = "AbortError" THEN "batch cancelled"
                                               ELSE "batch error", i))
    /\ tasks' = [tasks EXCEPT ![i].state = "failed",
                              ![i].response = [kind |-> "rejected", name |-> name]]
    /\ finally(Len(batches))
    /\ UNCHANGED <<aiConfigs, aiConfigGroups, abortController, aborted, orgTree, orgOptions,
                   orgDuplicates, batches, allSuggestions, orgPlan, opc, starts,
                   applyVars, dupVars, parseVars, fetchVars, factoryVars, helperVars,
                   ctxVars, formVars, modalVars>>

\* the continuation of await Promise.allSettled, to the return of the plan
Finish ==
    /\ opc = "awaiting"
    /\ \A i \in 1..Len(tasks) : tasks[i].state # "inflight"
    /\ LET suggestions == allSuggestions
           conflicts == identifyConflicts(suggestions, orgTree)
           newFolders == generateFolderStructure(suggestions, orgOptions.createHierarchy)
       IN  orgPlan' = <<[suggestions |-> suggestions,
                         conflicts |-> conflicts,
                         duplicates |-> orgDuplicates,
                         newFolders |-> newFolders,
                         metadata |-> [totalBookmarks |-> Len(extractBookmarks(orgTree)),
                                       processedBookmarks |-> Len(suggestions),
                                       aiConfigsUsed |-> <<orgOptions.groupId>>]]>>
    /\ logs' = logs \o <<Log("success", "parallel processing complete"),
                        Log("info", "conflicts identified"),
                        Log("info", "folders generated"),
                        Log("success", "plan created")>>
    /\ opc' = "resolved"
    /\ UNCHANGED <<aiConfigs, aiConfigGroups, abortController, aborted, orgTree, orgOptions,
                   orgDuplicates, batches, tasks, allSuggestions, processedCount, progress,
                   starts, applyVars, dupVars, parseVars, fetchVars, factoryVars,
                   helperVars, ctxVars, formVars, modalVars>>

ErrorNames == {"Error", "AbortError"}

(***************************************************************************)
(* organizeBookmarks with the partition loop of part_007:153-156 taken one *)
(* iteration at a time, for the question whether the call settles.  The    *)
(* loop variable i is batchSize times the number of batches pushed so far. *)
(***************************************************************************)
LiveBatchSizes == {0 - 1, 0} \cup 1..MaxBatchSize

OrgOptionsLive ==
    {[groupId |-> g, batchSize |-> k, createHierarchy |-> TRUE,
      detectDuplicates |-> (k > 1), confidenceThreshold |-> 5] :
        g \in {"g1", "g2"}, k \in LiveBatchSizes}

\* the list of batches is pushed to for as long as the loop runs; past this
\* many batches the model stops following the loop, which goes on
MaxPartition == MaxOrgBookmarks + 1

loopIndex == Len(batches) * orgOptions.batchSize

\* part_007:68-152, organizeBookmarks up to the loop
OrganizeBookmarksBegin ==
    /\ opc = "idle"
    /\ \E bookmarks \in OrgTrees, o \in OrgOptionsLive :
        LET allBookmarks == extractBookmarks(bookmarks)
            found == IF o.detectDuplicates THEN detectDuplicates(allBookmarks) ELSE <<>>
            logs1 == logs \o <<Log("info", "options"), Log("info", "extracted")>>
                     \o (IF o.detectDuplicates THEN <<Log("info", "duplicates detected")>>
                         ELSE <<>>)
            group == findById(aiConfigGroups, o.groupId)
        IN  /\ orgTree' = bookmarks
            /\ orgOptions' = o
            /\ orgDuplicates' = found
            /\ IF invalidGroup(group)
               THEN /\ logs' = Append(logs1, Log("error", "group not found or empty"))
                    /\ opc' = "rejected"
               ELSE /\ logs' = logs1
                    /\ opc' = "partitioning"
    /\ UNCHANGED <<aiConfigs, aiConfigGroups, abortController, aborted, batches, tasks,
                   progress, allSuggestions,
                   processedCount, orgPlan, starts, applyVars, dupVars, parseVars, fetchVars,
                   factoryVars, helperVars, ctxVars, formVars, modalVars>>

\* part_007:153-155, one iteration of the loop
PartitionStep ==
    /\ opc = "partitioning"
    /\ loopIndex < Len(extractBookmarks(orgTree))
    /\ Len(batches) < MaxPartition
    /\ batches' = Append(batches, slice(extractBookmarks(orgTree), loopIndex,
                                        loopIndex + orgOptions.batchSize))
    /\ UNCHANGED <<aiConfigs, aiConfigGroups, abortController, aborted, orgTree, orgOptions,
                   orgDuplicates, tasks, allSuggestions, processedCount, progress, orgPlan,
                   opc, starts, logs, applyVars, dupVars, parseVars, fetchVars, factoryVars,
                   helperVars, ctxVars, formVars, modalVars>>

\* part_007:157-193, from the end of the loop to the await
DispatchBatches ==
    /\ opc = "partitioning"
    /\ \lnot (loopIndex < Len(extractBookmarks(orgTree)))
    /\ LET group == findById(aiConfigGroups, orgOptions.groupId)
           started == [i \in 1..Len(batches) |-> dispatch(i - 1, Len(batches), group[1])]
       IN  /\ progress' = <<[processed |-> 0, total |-> Len(batches)]>>
           /\ tasks' = [i \in 1..Len(batches) |-> started[i].task]
           /\ logs' = Append(logs, Log("info", "split"))
                      \o Flatten([i \in 1..Len(batches) |-> started[i].logs])
    /\ opc' = "awaiting"
    /\ UNCHANGED <<aiConfigs, aiConfigGroups, abortController, aborted, orgTree, orgOptions,
                   orgDuplicates, batches, allSuggestions, processedCount, orgPlan, starts,
                   applyVars, dupVars, parseVars, fetchVars, factoryVars, helperVars,
                   ctxVars, formVars, modalVars>>

\* a provider call in flight resolves or rejects
Settle ==
    \/ \E i \in 1..Len(tasks) : \E response \in ResponsesFor(batches[i]) :
          BatchResolves(i, response)
    \/ \E i \in 1..Len(tasks) : \E name \in ErrorNames : BatchRejects(i, name)

NextOrgLive ==
    \/ StartOperation
    \/ CancelOperation
    \/ OrganizeBookmarksBegin
    \/ PartitionStep
    \/ DispatchBatches
    \/ Settle
    \/ Finish

\* the synchronous code runs on, every provider call settles, and the
\* continuation of Promise.allSettled runs
SpecOrgLive ==
    /\ InitOrg /\ [][NextOrgLive]_vars
    /\ WF_vars(PartitionStep) /\ WF_vars(DispatchBatches)
    /\ WF_vars(Settle) /\ WF_vars(Finish)

NextOrg ==
    \/ StartOperation
    \/ CancelOperation
    \/ OrganizeBookmarks
    \/ \E i \in 1..Len(tasks) : \E response \in ResponsesFor(batches[i]) :
          BatchResolves(i, response)
    \/ \E i \in 1..Len(tasks) : \E name \in ErrorNames : BatchRejects(i, name)
    \/ Finish

SpecOrg == InitOrg /\ [][NextOrg]_vars

\* the group that the running or finished call of organizeBookmarks uses
orgGroup == findById(aiConfigGroups, orgOptions.groupId)[1]

dispatched == opc \in {"awaiting", "resolved"}

(* C8: for N extracted bookmarks and batch size K >= 1 the organizer builds
   ceil(N/K) batches, and the batches concatenated in index order are the
   flattened bookmark list, same elements in the same order. *)
C8_BatchPartition ==
    dispatched =>
        LET N == Len(extractBookmarks(orgTree))
            K == orgOptions.batchSize
        IN  /\ Len(batches) = (N + K - 1) \div K
            /\ Flatten(batches) = extractBookmarks(orgTree)

\* three bookmarks in batches of two: the last batch is not full
C8_Witness ==
    /\ dispatched
    /\ Len(extractBookmarks(orgTree)) = 3
    /\ orgOptions.batchSize = 2
    /\ Len(batches) = 2
    /\ Len(batches[2]) = 1

(* C9: for a group of M >= 1 configuration ids and B batches, the request of
   batch i (0-based) is issued with the configuration aiConfigIds[i mod M],
   every batch that passed the cancellation check is assigned that id, and
   when B >= M and no batch was skipped every configuration of the group is
   assigned at least one batch. *)
C9_RoundRobin ==
    dispatched =>
        LET ids == orgGroup.aiConfigIds
            M == Len(ids)
            B == Len(tasks)
        IN  /\ \A i \in 1..B :
                 /\ tasks[i].state \in {"inflight", "ok", "failed"}
                      => tasks[i].modelId = ids[((i - 1) % M) + 1]
                 /\ tasks[i].state # "skipped"
                      => tasks[i].configId = ids[((i - 1) % M) + 1]
            /\ (B >= M /\ \A i \in 1..B : tasks[i].state # "skipped")
                 => \A m \in 1..M : \E i \in 1..B : tasks[i].configId = ids[m]

\* three batches over a group of two: c1, c2, and c1 again
C9_Witness ==
    /\ dispatched
    /\ Len(orgGroup.aiConfigIds) = 2
    /\ Len(tasks) = 3
    /\ tasks[1].modelId = "c1" /\ tasks[2].modelId = "c2" /\ tasks[3].modelId = "c1"

batchIds(i) == {batches[i][k].id : k \in 1..Len(batches[i])}

\* the entries of a response that name a bookmark of batch i with a
\* confidence that, brought into [0, 1], reaches the threshold
validEntries(i, response) ==
    LET confidence(e) == IF e.confidence = <<>> THEN 0
                         ELSE IF e.confidence[1] > 10 THEN 10
                         ELSE IF e.confidence[1] < 0 THEN 0 ELSE e.confidence[1]
        valid(e) == /\ e.bookmarkId # <<>>
                    /\ e.bookmarkId[1] \in batchIds(i)
                    /\ confidence(e) >= orgOptions.confidenceThreshold
    IN  IF parsedArray(response) # <<>> THEN SelectSeq(parsedArray(response)[1], valid)
        ELSE <<>>

\* the suggestions of the plan for the bookmarks of batch i, in plan order
planSuggestionsOf(i) ==
    LET ofBatch(suggestion) == suggestion.bookmarkId \in batchIds(i)
    IN  SelectSeq(orgPlan[1].suggestions, ofBatch)

errorLogsOf(i) == {k \in 1..Len(logs) : logs[k].level = "error" /\ logs[k].batch = i}

(* C3: when provider calls of some batches reject and the others resolve,
   organizeBookmarks does not reject; the plan it resolves with holds, for
   every batch whose call resolved, one suggestion per valid entry of its
   response, in order; and every batch whose call rejected has no suggestion
   in the plan and exactly one error entry in the log, whatever the order in
   which the batches settled. *)
C3_FailedBatchesIsolated ==
    /\ (\E i \in 1..Len(tasks) : tasks[i].state # "skipped") => opc # "rejected"
    /\ opc = "resolved" =>
        \A i \in 1..Len(tasks) :
            /\ tasks[i].state = "ok" =>
                 LET expected == validEntries(i, tasks[i].response)
                     got == planSuggestionsOf(i)
                 IN  /\ Len(got) = Len(expected)
                     /\ \A k \in 1..Len(got) :
                            got[k].bookmarkId = expected[k].bookmarkId[1]
            /\ tasks[i].state = "failed" =>
                 /\ planSuggestionsOf(i) = <<>>
                 /\ Cardinality(errorLogsOf(i)) = 1

\* batch 2 resolved with suggestions before batch 1 rejected, and the plan
\* was returned
C3_Witness ==
    /\ opc = "resolved"
    /\ Len(tasks) >= 2
    /\ tasks[1].state = "failed"
    /\ tasks[2].state = "ok"
    /\ planSuggestionsOf(2) # <<>>
    /\ \E k \in 1..Len(logs) : \E l \in (k + 1)..Len(logs) :
          /\ logs[k] = BatchLog("success", "batch processed", 2)
          /\ logs[l] = BatchLog("error", "batch error", 1)

\* organizeBookmarks was called and has passed its synchronous part
called == opc \in {"awaiting", "resolved", "rejected"}

(* C11: when options.groupId names no group of aiConfigGroups, or a group
   with no member, organizeBookmarks rejects, its last log entry is the error
   entry of the group check, and no batch is built and no request issued. *)
C11_InvalidGroupRejects ==
    called =>
        LET named == {i \in 1..Len(aiConfigGroups) :
                         aiConfigGroups[i].id = orgOptions.groupId}
            invalid == \/ named = {}
                       \/ \E i \in named :
                            /\ \A j \in named : i <= j
                            /\ aiConfigGroups[i].aiConfigIds = <<>>
        IN  /\ invalid <=> opc = "rejected"
            /\ invalid =>
                 /\ tasks = <<>> /\ batches = <<>> /\ progress = <<>>
                 /\ logs # <<>>
                 /\ logs[Len(logs)] = Log("error", "group not found or empty")

\* a call that names the one group, which is empty, over a tree with bookmarks
C11_Witness ==
    /\ opc = "rejected"
    /\ orgOptions.groupId = "g1"
    /\ aiConfigGroups[1].aiConfigIds = <<>>
    /\ orgTree # <<>>

\* a call that names a group that is not there
C11_WitnessMissing ==
    /\ opc = "rejected"
    /\ orgOptions.groupId = "g2"

unparseable(i) == tasks[i].state = "ok" /\ tasks[i].response.kind # "array"

parseErrorLogs == {k \in 1..Len(logs) : logs[k] = Log("error", "parse failed")}

(* C12: a batch whose response does not parse as a JSON array settles
   without an exception, has no suggestion in the plan and leaves one parse
   error entry in the log; organizeBookmarks resolves, and the plan holds the
   valid suggestions of every other resolved batch. *)
C12_ParseFailureIsolated ==
    /\ dispatched =>
         Cardinality(parseErrorLogs) = Cardinality({i \in 1..Len(tasks) : unparseable(i)})
    /\ opc = "resolved" =>
         \A i \in 1..Len(tasks) :
            /\ unparseable(i) => planSuggestionsOf(i) = <<>>
            /\ (tasks[i].state = "ok" /\ ~unparseable(i)) =>
                  Len(planSuggestionsOf(i)) = Len(validEntries(i, tasks[i].response))

\* batch 1 answered with text that does not parse, batch 2 with valid entries
C12_Witness ==
    /\ opc = "resolved"
    /\ Len(tasks) >= 2
    /\ unparseable(1)
    /\ tasks[2].state = "ok"
    /\ planSuggestionsOf(2) # <<>>
    /\ parseErrorLogs # {}

\* the cancellation signal of the operation is set
signalSet == abortController # 0 /\ abortController \in aborted

\* the request of batch i (1-based) was issued
issued(batchTasks, i) ==
    i \in 1..Len(batchTasks) /\ batchTasks[i].state \in {"inflight", "ok", "failed"}

skipLogsOf(i) == {k \in 1..Len(logs) : logs[k] = BatchLog("warning", "batch skipped", i)}

(* C29: every batch that failed, by a rejected request or by a round-robin
   configuration id that matches no configuration of the registry, has an
   error entry in the log. *)
C29_FailedBatchLogged ==
    dispatched =>
        \A i \in 1..Len(tasks) :
            tasks[i].state \in {"threw", "failed"} => errorLogsOf(i) # {}

(* C30: the signal given to the transport's fetch call of a batch request
   is the cancellation signal of the operation, so once cancelOperation was
   called with the request in flight that signal is aborted. *)
C30_FetchGetsOperationSignal ==
    dispatched =>
        \A i \in 1..Len(tasks) :
            (tasks[i].state = "inflight" /\ tasks[i].signal # NoSignal) =>
                /\ tasks[i].fetchSignal = tasks[i].signal
                /\ tasks[i].signal \in aborted => tasks[i].fetchSignal \in aborted

(* C17: every batch checks the cancellation signal before its request: no
   step taken while the signal is set issues a request of a batch, and a
   batch that found the signal set issued no request, has one warning entry
   in the log and no suggestion in the list or in the plan. *)
C17_CancelledBatchesSkipped ==
    /\ [][signalSet => \A i \in 1..Len(tasks') :
                          issued(tasks', i) => issued(tasks, i)]_vars
    /\ [](dispatched =>
            \A i \in 1..Len(tasks) :
                /\ tasks[i].state = "skipped" <=> tasks[i].signal \in aborted
                                                  /\ \lnot issued(tasks, i)
                                                  /\ tasks[i].state # "threw"
                /\ tasks[i].state = "skipped" =>
                     /\ tasks[i].modelId = None
                     /\ tasks[i].response = NoResponse
                     /\ Cardinality(skipLogsOf(i)) = 1
                     /\ \A k \in 1..Len(allSuggestions) :
                            allSuggestions[k].bookmarkId \notin batchIds(i)
                     /\ opc = "resolved" => planSuggestionsOf(i) = <<>>)

\* the operation was cancelled before the call: two batches, both skipped,
\* and the plan was returned
C17_Witness ==
    /\ opc = "resolved"
    /\ signalSet
    /\ Len(tasks) >= 2
    /\ \A i \in 1..Len(tasks) : tasks[i].state = "skipped"
    /\ orgPlan[1].suggestions = <<>>

\* the operation was cancelled while the request of a batch was in flight
C17_WitnessInFlight ==
    /\ opc = "awaiting"
    /\ signalSet
    /\ \E i \in 1..Len(tasks) : tasks[i].state = "inflight"

(* C18: startOperation leaves a controller that no earlier call allocated
   and that is not aborted, and a log that holds the start entry alone,
   whatever calls of startOperation, cancelOperation and organizeBookmarks
   came before; cancelOperation aborts the current controller and no other,
   so a controller allocated after a cancel is not aborted by it. *)
C18_FreshTokenAndLog ==
    /\ [][starts' = starts + 1 =>
            /\ abortController' \notin 0..abortController
            /\ abortController' \notin aborted'
            /\ logs' = <<Log("info", "starting")>>]_vars
    /\ [][aborted' \subseteq aborted \cup {abortController}]_vars
    /\ [](\A c \in aborted : c # 0 /\ c <= abortController)

\* the first run was cancelled, the operation was started again, and the
\* second run has a request in flight
C18_Witness ==
    /\ starts = 2
    /\ aborted = {1}
    /\ abortController = 2
    /\ opc = "awaiting"
    /\ \E i \in 1..Len(tasks) : tasks[i].state = "inflight" /\ tasks[i].signal = 2

\* startOperation after a call that was cancelled in flight and has resolved
C18_WitnessAfterCall ==
    /\ opc = "restarted"
    /\ aborted = {1}
    /\ abortController = 2
    /\ logs = <<Log("info", "starting")>>

\* the batches that have settled: skipped, threw, resolved or rejected
settledBatches == {i \in 1..Len(tasks) : tasks[i].state # "inflight"}

(* C19: progress is reported with total the number of batches, first with
   processed 0 and then once more for every batch that settles, skipped and
   failed batches included, each report one above the report before; and
   when organizeBookmarks resolves the last report has processed = total. *)
C19_ProgressCountsEveryBatch ==
    dispatched =>
        /\ progress # <<>>
        /\ \A k \in 1..Len(progress) :
              /\ progress[k].total = Len(batches)
              /\ progress[k].processed = k - 1
              /\ progress[k].processed <= progress[k].total
        /\ Len(progress) = 1 + Cardinality(settledBatches)
        /\ opc = "resolved" => progress[Len(progress)].processed = Len(batches)

\* the call resolved with a skipped batch and 0 as the last processed count
C19_SkippedNotCounted ==
    /\ opc = "resolved"
    /\ \E i \in 1..Len(tasks) : tasks[i].state = "skipped"
    /\ progress[Len(progress)].processed < Len(batches)

\* what the batch closure of ok batch i pushed: the suggestions of its
\* response that pass the threshold
contributionOf(i) ==
    validSuggestions(parseBatchAISuggestions(tasks[i].response, batches[i]).suggestions,
                     orgOptions.confidenceThreshold)

\* how often suggestion s is pushed by the ok batches i..Len(tasks)
RECURSIVE contributed(_, _)
contributed(s, i) ==
    IF i > Len(tasks) THEN 0
    ELSE (IF tasks[i].state = "ok" THEN Count(contributionOf(i), s) ELSE 0)
         + contributed(s, i + 1)

okBatches == {i \in 1..Len(tasks) : tasks[i].state = "ok"}

(* C34: whatever the order in which the batches in flight settle, the
   suggestions of the plan are, as a multiset, the suggestions that pass the
   threshold of every batch that succeeded, and no step of a running call
   takes an entry out of the log. *)
C34_NoLostUpdate ==
    /\ [](opc = "resolved" =>
            /\ \A s \in Range(orgPlan[1].suggestions)
                        \cup UNION {Range(contributionOf(i)) : i \in okBatches} :
                  Count(orgPlan[1].suggestions, s) = contributed(s, 1)
            /\ \A i \in okBatches :
                  \E k \in 1..Len(logs) : logs[k] = BatchLog("success", "batch processed", i))
    /\ [][opc = "awaiting" =>
            /\ Len(logs') >= Len(logs)
            /\ SubSeq(logs', 1, Len(logs)) = logs]_vars

\* two batches succeeded, the second before the first: the plan opens with a
\* suggestion of the second batch and holds those of both
C34_Witness ==
    /\ opc = "resolved"
    /\ Len(tasks) = 2
    /\ okBatches = {1, 2}
    /\ contributionOf(1) # <<>> /\ contributionOf(2) # <<>>
    /\ orgPlan[1].suggestions = contributionOf(2) \o contributionOf(1)

\* the 1-based place of bookmark id in batch i, 0 when it is not in the batch
placeInBatch(i, id) ==
    IF \E k \in 1..Len(batches[i]) : batches[i][k].id = id
    THEN CHOOSE k \in 1..Len(batches[i]) :
            /\ batches[i][k].id = id
            /\ \A j \in 1..(k - 1) : batches[i][j].id # id
    ELSE 0

(* C35: the suggestions one batch contributes stand in the order of the
   batch's bookmarks: when the suggestions for x and y of one batch are both
   kept and x precedes y in the batch, the suggestion for x precedes the one
   for y, whatever the order of the entries in the response. *)
C35_BatchOrderKept ==
    \A i \in okBatches :
        \A p, q \in 1..Len(contributionOf(i)) :
            placeInBatch(i, contributionOf(i)[p].bookmarkId)
              < placeInBatch(i, contributionOf(i)[q].bookmarkId) => p < q

\* a batch answered in the order of its bookmarks contributes in that order
C35_InOrderResponse ==
    \E i \in okBatches :
        /\ Len(contributionOf(i)) = 2
        /\ Len(batches[i]) = 2
        /\ \A p \in 1..2 : contributionOf(i)[p].bookmarkId = batches[i][p].id

(* C37: the plan organizeBookmarks returns holds at most one suggestion per
   bookmark id, also when a response lists one bookmarkId in several
   entries. *)
C37_OneSuggestionPerBookmark ==
    opc = "resolved" =>
        \A p, q \in 1..Len(orgPlan[1].suggestions) :
            p # q => orgPlan[1].suggestions[p].bookmarkId # orgPlan[1].suggestions[q].bookmarkId

\* responses with one entry per bookmark: the plan holds one suggestion for
\* each of two bookmarks
C37_OneEntryEach ==
    /\ opc = "resolved"
    /\ Len(orgPlan[1].suggestions) = 2
    /\ orgPlan[1].suggestions[1].bookmarkId # orgPlan[1].suggestions[2].bookmarkId

organizing == opc \in {"partitioning", "awaiting"}

callSettled == opc \in {"resolved", "rejected"}

(* C39: when every provider call settles, organizeBookmarks settles for
   every tree, every group and every integer batchSize, zero and negative
   ones included. *)
C39_AlwaysSettles == organizing ~> callSettled

\* with a batchSize of at least 1 the call settles
C39_PositiveBatchSizeSettles ==
    (organizing /\ orgOptions.batchSize >= 1) ~> callSettled

\* the loop is still running after more iterations than there are bookmarks
C39_LoopRunsOn ==
    /\ opc = "partitioning"
    /\ orgOptions.batchSize <= 0
    /\ Len(batches) = MaxPartition
    /\ loopIndex < Len(extractBookmarks(orgTree))

----------------------------------------------------------------------------
(* fetchWithRetry and the fetch-based provider adapters *)

(* How one fetch attempt ends:
     [kind |-> "response", status, body]: fetch resolved with a Response;
       body is "text" when the JSON body holds the text the adapter reads
       and "empty" when it does not
     [kind |-> "error", error]: fetch rejected with error
   A thrown value is a record
     [instanceofError, code, status, provider, name, message]
   where code and status are <<>> when the value has no such property. *)

Response(status, body) == [kind |-> "response", status |-> status, body |-> body]

\* the DOMException of an aborted fetch: an Error with the legacy property code
AbortError ==
    [instanceofError |-> TRUE, code |-> <<"20">>, status |-> <<>>, provider |-> None,
     name |-> "AbortError", message |-> "The operation was aborted."]

\* the TypeError of a fetch that failed, with the message of the browser
TypeError(message) ==
    [instanceofError |-> TRUE, code |-> <<>>, status |-> <<>>, provider |-> None,
     name |-> "TypeError", message |-> message]

NetworkErrorMessage == "NetworkError when attempting to fetch resource."

\* createApiError(code, message, provider, status): a plain object
createApiError(code, message, provider, status) ==
    [instanceofError |-> FALSE, code |-> <<code>>, status |-> status,
     provider |-> provider, name |-> None, message |-> message]

\* retries = 3 of the options destructuring
DefaultRetries == 3

\* response.status >= 500 || response.status === 429
retriedStatus(status) == status >= 500 \/ status = 429

\* error.name === 'AbortError' || error.message.includes('NetworkError')
retriedError(error) ==
    error.instanceofError
    /\ (error.name = "AbortError" \/ error.message = NetworkErrorMessage)

\* mutant: an attempt that ends with a response is never repeated
afterAttemptNoRetry(outcome, thisAttempt, maxRetries) ==
    IF outcome.kind = "response"
    THEN [pc |-> "returned", out |-> <<outcome>>]
    ELSE IF retriedError(outcome.error) /\ thisAttempt < maxRetries
    THEN [pc |-> "backoff", out |-> <<>>]
    ELSE [pc |-> "threw", out |-> <<outcome.error>>]

\* lastError when the loop is left: the error caught last, <<>> for undefined
RECURSIVE lastError(_)
lastError(ended) ==
    IF ended = <<>> THEN <<>>
    ELSE IF ended[Len(ended)].kind = "error" THEN <<ended[Len(ended)].error>>
    ELSE lastError(SubSeq(ended, 1, Len(ended) - 1))

\* mutant: continue does not count the attempt
continueLoopSameAttempt(thisAttempt, maxRetries) ==
    [attempt |-> thisAttempt, pc |-> "fetching"]

\* continue: attempt++ and the loop test attempt <= retries; the statement
\* after the loop throws lastError
continueLoop(thisAttempt, maxRetries) ==
    [attempt |-> thisAttempt + 1,
     pc |-> IF thisAttempt + 1 <= maxRetries THEN "fetching" ELSE "threw"]

\* the body of the loop of fetchWithRetry after the attempt ended: where the
\* call goes and what it returns or throws
afterAttempt(outcome, thisAttempt, maxRetries) ==
    IF outcome.kind = "response"
    THEN IF outcome.status >= 400 /\ outcome.status < 500 /\ outcome.status # 429
         THEN [pc |-> "returned", out |-> <<outcome>>]
         ELSE IF retriedStatus(outcome.status) /\ thisAttempt < maxRetries
         THEN [pc |-> "backoff", out |-> <<>>]
         ELSE [pc |-> "returned", out |-> <<outcome>>]
    ELSE IF retriedError(outcome.error) /\ thisAttempt < maxRetries
    THEN [pc |-> "backoff", out |-> <<>>]
    ELSE [pc |-> "threw", out |-> <<outcome.error>>]

\* Response.ok
ok(response) == response.status >= 200 /\ response.status <= 299

\* handleApiResponse(response, provider): <<>> when it returns, else what it throws
handleApiResponse(response, provider) ==
    IF ~ok(response)
    THEN LET code == IF response.status = 401 \/ response.status = 403 THEN "AUTH_ERROR"
                     ELSE IF response.status = 404 THEN "ENDPOINT_NOT_FOUND"
                     ELSE IF response.status = 429 THEN "RATE_LIMIT"
                     ELSE IF response.status >= 500 THEN "NETWORK_ERROR"
                     ELSE "PROVIDER_ERROR"
         IN  <<createApiError(code, "HTTP", provider, <<response.status>>)>>
    ELSE <<>>

\* mutant: the catch clause of the adapter passes every thrown value on
rethrowAsIs(error, provider) == error

\* the catch clause of generateContent: what it throws for a caught value
rethrow(error, provider) ==
    IF error.instanceofError /\ error.code # <<>>
    THEN error
    ELSE createApiError("NETWORK_ERROR",
                        IF error.instanceofError THEN error.message ELSE "Unknown error",
                        provider, <<>>)

\* the try block of generateContent once fetchWithRetry has settled:
\* [resolved |-> TRUE, ...] with the text, or the value the try block throws
tryBlock(pc, out, provider) ==
    IF pc = "threw" THEN [resolved |-> FALSE, value |-> out[1]]
    ELSE LET thrown == handleApiResponse(out[1], provider)
         IN  IF thrown # <<>> THEN [resolved |-> FALSE, value |-> thrown[1]]
             ELSE IF out[1].body # "text"
             THEN [resolved |-> FALSE,
                   value |-> createApiError("PARSE_ERROR", "Invalid response format",
                                            provider, <<out[1].status>>)]
             ELSE [resolved |-> TRUE, value |-> out[1]]

----------------------------------------------------------------------------
(* fetchWithRetry and the adapters on bounded outcomes *)

MaxRetries == 3

Statuses == {200, 304, 400, 401, 403, 404, 429, 500}

\* the ways one fetch attempt can end; a timeout of the attempt is an AbortError
AttemptOutcomes ==
    {Response(status, "text") : status \in Statuses}
    \cup {Response(200, "empty")}
    \cup {[kind |-> "error", error |-> e] :
            e \in {AbortError, TypeError(NetworkErrorMessage), TypeError("Failed to fetch")}}

\* the adapters of providers/: anthropic and openrouter refuse a
\* configuration without apiKey before they fetch, ollama takes none
Adapters ==
    {[provider |-> p, apiKey |-> k] :
        p \in {"anthropic", "openrouter", "ollama"}, k \in BOOLEAN}

\* fetchWithRetry called on its own, by no adapter
NoAdapter == [provider |-> None, apiKey |-> FALSE]

requiresKey(provider) == provider \in {"anthropic", "openrouter"}

InitFetch ==
    /\ ApplyIdle /\ DupIdle /\ ParseIdle /\ OrgIdle /\ FactoryIdle /\ HelperIdle /\ CtxIdle /\ FormIdle /\ ModalIdle
    /\ logs = <<>>
    /\ adapter \in Adapters \cup {NoAdapter}
    /\ retries = 0 /\ attempt = 0 /\ outcomes = <<>> /\ fetchOut = <<>>
    /\ fpc = "idle"
    /\ genOut = <<>>
    /\ gpc = "idle"

\* fetchWithRetry(url, {retries: r}): the loop is entered with attempt = 0
FetchWithRetry(r) ==
    /\ adapter = NoAdapter
    /\ fpc = "idle"
    /\ retries' = r
    /\ attempt' = 0
    /\ fpc' = "fetching"
    /\ UNCHANGED <<adapter, outcomes, fetchOut, genOut, gpc,
                   applyVars, dupVars, logs, parseVars, orgVars, factoryVars, helperVars,
                   ctxVars, formVars, modalVars>>

\* generateContent of an adapter, to its await of fetchWithRetry, which it
\* calls without retries
GenerateContent ==
    /\ adapter # NoAdapter
    /\ gpc = "idle"
    /\ IF requiresKey(adapter.provider) /\ ~adapter.apiKey
       THEN /\ genOut' = <<createApiError("AUTH_ERROR", "API key is required",
                                          adapter.provider, <<>>)>>
            /\ gpc' = "rejected"
            /\ UNCHANGED <<retries, attempt, fpc>>
       ELSE /\ retries' = DefaultRetries
            /\ attempt' = 0
            /\ fpc' = "fetching"
            /\ gpc' = "awaiting"
            /\ UNCHANGED genOut
    /\ UNCHANGED <<adapter, outcomes, fetchOut, applyVars, dupVars, logs, parseVars, orgVars,
                   factoryVars, helperVars, ctxVars, formVars, modalVars>>

\* the fetch of the current attempt ends with outcome
AttemptEnds(outcome) ==
    /\ fpc = "fetching"
    /\ outcomes' = Append(outcomes, outcome)
    /\ LET next == afterAttempt(outcome, attempt, retries)
       IN  /\ fpc' = next.pc
           /\ fetchOut' = next.out
    /\ UNCHANGED <<adapter, retries, attempt, genOut, gpc,
                   applyVars, dupVars, logs, parseVars, orgVars, factoryVars, helperVars,
                   ctxVars, formVars, modalVars>>

\* the backoff timer fires and the loop continues
BackoffElapses ==
    /\ fpc = "backoff"
    /\ LET next == continueLoop(attempt, retries)
       IN  /\ attempt' = next.attempt
           /\ fpc' = next.pc
           /\ fetchOut' = IF next.pc = "threw" THEN lastError(outcomes) ELSE fetchOut
    /\ UNCHANGED <<adapter, retries, outcomes, genOut, gpc,
                   applyVars, dupVars, logs, parseVars, orgVars, factoryVars, helperVars,
                   ctxVars, formVars, modalVars>>

\* generateContent after fetchWithRetry settled: the rest of the try block
\* and the catch clause
GenerateContentSettles ==
    /\ gpc = "awaiting"
    /\ fpc \in {"returned", "threw"}
    /\ LET tried == tryBlock(fpc, fetchOut, adapter.provider)
       IN  IF tried.resolved
           THEN /\ genOut' = <<tried.value>>
                /\ gpc' = "resolved"
           ELSE /\ genOut' = <<rethrow(tried.value, adapter.provider)>>
                /\ gpc' = "rejected"
    /\ UNCHANGED <<adapter, retries, attempt, outcomes, fetchOut, fpc,
                   applyVars, dupVars, logs, parseVars, orgVars, factoryVars, helperVars,
                   ctxVars, formVars, modalVars>>

NextFetch ==
    \/ \E r \in 0..MaxRetries : FetchWithRetry(r)
    \/ GenerateContent
    \/ \E outcome \in AttemptOutcomes : AttemptEnds(outcome)
    \/ BackoffElapses
    \/ GenerateContentSettles

SpecFetch == InitFetch /\ [][NextFetch]_vars

\* every attempt settles and every backoff timer fires
SpecFetchLive == SpecFetch /\ WF_vars(NextFetch)

\* fetch calls issued so far
fetches == Len(outcomes) + (IF fpc = "fetching" THEN 1 ELSE 0)

\* the error code that the taxonomy gives a non-2xx status
taxonomyCode(status) ==
    CASE status \in {401, 403} -> "AUTH_ERROR"
      [] status = 404 -> "ENDPOINT_NOT_FOUND"
      [] status = 429 -> "RATE_LIMIT"
      [] status >= 500 -> "NETWORK_ERROR"
      [] OTHER -> "PROVIDER_ERROR"

(* C13: when fetchWithRetry hands a fetch-based adapter a response with a
   non-2xx status s, generateContent rejects with an error whose status is s
   and whose code is the taxonomy's code for s. *)
C13_StructuredHttpError ==
    (gpc \in {"resolved", "rejected"} /\ fpc = "returned" /\ ~ok(fetchOut[1])) =>
        /\ gpc = "rejected"
        /\ genOut[1].status = <<fetchOut[1].status>>
        /\ genOut[1].code = <<taxonomyCode(fetchOut[1].status)>>

isRetriedResponse(o) == o.kind = "response" /\ (o.status >= 500 \/ o.status = 429)

isClientError(o) ==
    o.kind = "response" /\ o.status >= 400 /\ o.status <= 499 /\ o.status # 429

(* C14: after an attempt that ends with a 5xx or 429 response while attempts
   remain, fetchWithRetry issues the request again (after its backoff); an
   attempt that ends with a 4xx response other than 429 is the last one, and
   that response is what the caller gets. *)
C14_RetryOnlyServerErrors ==
    \A k \in 1..Len(outcomes) :
        /\ (isRetriedResponse(outcomes[k]) /\ k - 1 < retries) =>
              (k < Len(outcomes) \/ fpc \in {"backoff", "fetching"})
        /\ isClientError(outcomes[k]) =>
              /\ k = Len(outcomes)
              /\ fpc = "returned"
              /\ fetchOut = <<outcomes[k]>>

\* a 500, the fetch issued again, then a 404 that is returned at once
C14_Witness ==
    /\ Len(outcomes) = 2
    /\ outcomes[1] = Response(500, "text")
    /\ outcomes[2] = Response(404, "text")
    /\ retries = 3
    /\ fpc = "returned"

(* C15: an attempt of fetchWithRetry that fails with AbortError is the last
   one: no fetch is issued after it, and the AbortError is what
   fetchWithRetry throws. *)
C15_AbortNotRetried ==
    \A k \in 1..Len(outcomes) :
        (outcomes[k].kind = "error" /\ outcomes[k].error.name = "AbortError") =>
            /\ k = Len(outcomes)
            /\ fpc = "threw"
            /\ fetchOut = <<outcomes[k].error>>

settled == fpc \in {"returned", "threw"}

(* C16: a call of fetchWithRetry issues at most retries + 1 fetches, and,
   every attempt settling and every backoff timer firing, it returns or
   throws, whatever the outcomes of its attempts. *)
C16_FetchTerminatesWithinBudget ==
    /\ [](fpc # "off" => fetches <= retries + 1)
    /\ (fpc = "fetching") ~> settled

\* retries + 1 attempts were made, every one but the last retried
C16_Witness ==
    /\ settled
    /\ retries = 3
    /\ Len(outcomes) = 4
    /\ outcomes[4] = Response(429, "text")

----------------------------------------------------------------------------
(* The model factory: getGenerativeModel over bounded configuration lists *)

MaxFactoryConfigs == 2

\* the providers of the configurations: two with an adapter, one without a
\* case in the switch
FactoryProviders == {"gemini", "anthropic", "cohere"}

\* configuration lists of n entries with the ids c1..cn in order, any
\* provider and any isDefault flag on each
FactoryConfigLists(n) ==
    {[i \in 1..n |-> [AiConfig(ConfigIdList[i]) EXCEPT !.provider = providers[i],
                                                       !.isDefault = flags[i]]] :
        providers \in [1..n -> FactoryProviders], flags \in [1..n -> BOOLEAN]}

\* an id argument: not given, the id of a possible configuration, or an id
\* of no configuration
FactoryIds(n) == {<<>>} \cup {<<ConfigIdList[i]>> : i \in 1..n} \cup {<<"cx">>}

InitFactory ==
    /\ ApplyIdle /\ DupIdle /\ ParseIdle /\ OrgIdle /\ FetchIdle /\ HelperIdle /\ CtxIdle /\ FormIdle /\ ModalIdle
    /\ logs = <<>>
    /\ \E n \in 0..MaxFactoryConfigs :
          /\ factoryConfigs \in FactoryConfigLists(n)
          /\ factoryActiveId \in FactoryIds(n)
          /\ factorySpecificId \in FactoryIds(n)
    /\ factoryOut = <<>>
    /\ mpc = "idle"

\* the call getGenerativeModel(configs, activeId, specificId)
GetGenerativeModel ==
    /\ mpc = "idle"
    /\ factoryOut' = <<getGenerativeModel(factoryConfigs, factoryActiveId, factorySpecificId)>>
    /\ mpc' = "done"
    /\ UNCHANGED <<factoryConfigs, factoryActiveId, factorySpecificId,
                   applyVars, dupVars, logs, parseVars, orgVars, fetchVars, helperVars,
                   ctxVars, formVars, modalVars>>

NextFactory == GetGenerativeModel

SpecFactory == InitFactory /\ [][NextFactory]_vars

\* the positions of the configurations flagged isDefault
defaults == {i \in 1..Len(factoryConfigs) : factoryConfigs[i].isDefault}

\* the id the priority rule names, in a list; empty when no rule applies
priorityId ==
    IF factorySpecificId # <<>> THEN factorySpecificId
    ELSE IF factoryActiveId # <<>> THEN factoryActiveId
    ELSE IF defaults # {}
         THEN <<factoryConfigs[CHOOSE i \in defaults : \A j \in defaults : i <= j].id>>
    ELSE IF factoryConfigs # <<>> THEN <<factoryConfigs[1].id>>
    ELSE <<>>

\* the configurations with the id the priority rule names
priorityConfigs ==
    {i \in 1..Len(factoryConfigs) : priorityId # <<>> /\ factoryConfigs[i].id = priorityId[1]}

(* C20: getGenerativeModel uses the explicit id when given, else the active
   id when given, else the id of the first configuration flagged isDefault,
   else the id of the first configuration; it returns an adapter when that id
   names a configuration of a provider it has an adapter for, and the
   adapter's id and provider are those of that configuration; else it
   throws. *)
C20_SelectorPriority ==
    mpc = "done" =>
        LET out == factoryOut[1]
        IN  /\ out.threw <=> \/ priorityConfigs = {}
                             \/ \A i \in priorityConfigs :
                                   factoryConfigs[i].provider \notin AdapterProviders
            /\ \lnot out.threw =>
                  /\ out.id = priorityId[1]
                  /\ \E i \in priorityConfigs : out.provider = factoryConfigs[i].provider

\* an explicit id, another active id, and a default that is neither
C20_Witness ==
    /\ mpc = "done"
    /\ Len(factoryConfigs) = 2
    /\ factorySpecificId = <<"c2">>
    /\ factoryActiveId = <<"c1">>
    /\ \lnot factoryOut[1].threw
    /\ factoryOut[1].id = "c2"

\* no id given and the second configuration is the one flagged isDefault
C20_WitnessDefault ==
    /\ mpc = "done"
    /\ factorySpecificId = <<>> /\ factoryActiveId = <<>>
    /\ defaults = {2}
    /\ factoryOut[1].id = "c2"

\* no id given and no configuration flagged: the first of the list
C20_WitnessFirst ==
    /\ mpc = "done"
    /\ factorySpecificId = <<>> /\ factoryActiveId = <<>>
    /\ Len(factoryConfigs) = 2 /\ defaults = {}
    /\ factoryOut[1].id = "c1"

\* the active id is used when no explicit id is given, before the default
C20_WitnessActive ==
    /\ mpc = "done"
    /\ factorySpecificId = <<>> /\ factoryActiveId = <<"c2">>
    /\ defaults = {1}
    /\ factoryOut[1].id = "c2"

\* getGenerativeModel threw one of its two configuration-not-found errors
configNotFound(out) ==
    out.threw /\ out.error \in {"No AiConfig available", "AiConfig not found"}

(* C21: getGenerativeModel throws a configuration-not-found error exactly
   when the list is empty or the id the priority rule names is the id of no
   configuration of the list, and then it returns no adapter; an id that
   names no configuration is never replaced by another one. *)
C21_StaleIdThrows ==
    mpc = "done" =>
        LET out == factoryOut[1]
        IN  /\ configNotFound(out) <=> (factoryConfigs = <<>> \/ priorityConfigs = {})
            /\ configNotFound(out) => out.id = None
            /\ (priorityId # <<>> /\ priorityConfigs = {}) =>
                  out.error = "AiConfig not found"

\* an explicit id of no configuration, over a list with a default
C21_Witness ==
    /\ mpc = "done"
    /\ factorySpecificId = <<"cx">>
    /\ Len(factoryConfigs) = 2 /\ defaults = {2}
    /\ factoryConfigs[1].provider = "gemini" /\ factoryConfigs[2].provider = "gemini"
    /\ factoryOut[1].error = "AiConfig not found"

\* no id given and an empty list
C21_WitnessEmpty ==
    /\ mpc = "done"
    /\ factoryConfigs = <<>> /\ factorySpecificId = <<>> /\ factoryActiveId = <<>>
    /\ factoryOut[1].error = "No AiConfig available"

\* the bookmarks of a duplicate group, primary first
membersOf(group) == <<group.primaryBookmark>> \o group.duplicates

\* of the groups detected for a list, those of the exact-URL pass: it runs
\* first
exactUrlGroups(groups, bookmarks) == SubSeq(groups, 1, Len(urlPass(bookmarks)))

\* a group among groups that holds both bookmarks, all of its members with
\* their URL
sameUrlGroup(groups, a, b) ==
    \E k \in 1..Len(groups) :
        LET members == membersOf(groups[k])
        IN  /\ \E i \in 1..Len(members) : members[i].id = a.id
            /\ \E i \in 1..Len(members) : members[i].id = b.id
            /\ \A i \in 1..Len(members) :
                  toLowerCaseTrim(members[i].url) = toLowerCaseTrim(a.url)

\* the pairs of bookmarks of the input whose URLs are equal after
\* lower-casing and trimming
sameUrlPairs ==
    {<<i, j>> \in (1..Len(dupInput)) \X (1..Len(dupInput)) :
        i < j /\ toLowerCaseTrim(dupInput[i].url) = toLowerCaseTrim(dupInput[j].url)}

(* C23: two bookmarks with URLs that are not empty and are equal after
   lower-casing and trimming are in one exact-URL duplicate group, as primary
   or as duplicate, in the groups detected for the list and in the groups
   detected for the list in reverse order. *)
C23_UrlGroupingSymmetric ==
    dpc = "detected" =>
        \A p \in sameUrlPairs :
            dupInput[p[1]].url # "" =>
                /\ sameUrlGroup(exactUrlGroups(dupGroups, dupInput),
                                dupInput[p[1]], dupInput[p[2]])
                /\ sameUrlGroup(exactUrlGroups(detectDuplicates(Reverse(dupInput)),
                                               Reverse(dupInput)),
                                dupInput[p[1]], dupInput[p[2]])

(* C23 as stated: every two bookmarks with URLs equal after lower-casing and
   trimming are in one exact-URL duplicate group, in either input order. *)
C23_EveryEqualUrlGrouped ==
    dpc = "detected" =>
        \A p \in sameUrlPairs :
            /\ sameUrlGroup(exactUrlGroups(dupGroups, dupInput),
                                dupInput[p[1]], dupInput[p[2]])
            /\ sameUrlGroup(exactUrlGroups(detectDuplicates(Reverse(dupInput)),
                                               Reverse(dupInput)),
                            dupInput[p[1]], dupInput[p[2]])

\* two spellings of one URL, the second bookmark the primary of their group
C23_Witness ==
    /\ dpc = "detected"
    /\ Len(dupInput) = 2
    /\ dupInput[1].url = "http://x.com/a"
    /\ dupInput[2].url = " HTTP://x.com/a"
    /\ dupGroups # <<>>
    /\ dupGroups[1].primaryBookmark.id = 2
    /\ sameUrlGroup(exactUrlGroups(dupGroups, dupInput), dupInput[1], dupInput[2])

----------------------------------------------------------------------------
(* extractBookmarks, identifyConflicts and generateFolderStructure on bounded
   inputs *)

InitHelpers ==
    /\ ApplyIdle /\ DupIdle /\ ParseIdle /\ OrgIdle /\ FetchIdle /\ FactoryIdle /\ CtxIdle /\ FormIdle /\ ModalIdle
    /\ logs = <<>>
    /\ helperTree = <<>> /\ helperSuggestions = <<>> /\ helperHierarchy = FALSE
    /\ helperOut = <<>>
    /\ hpc = "idle"

\* extractBookmarks(nodes)
ExtractBookmarks ==
    /\ hpc = "idle"
    /\ \E nodes \in Trees :
          /\ helperTree' = nodes
          /\ helperOut' = extractBookmarks(nodes)
    /\ hpc' = "extracted"
    /\ UNCHANGED <<helperSuggestions, helperHierarchy, applyVars, dupVars, logs, parseVars,
                   orgVars, fetchVars, factoryVars, ctxVars, formVars, modalVars>>

\* the suggestions identifyConflicts is given: up to two, for a bookmark id, a
\* category that is the name of a folder, a path of two, or "Root", and a
\* confidence of 0.3 or 0.9
ConflictSuggestionLists ==
    UNION {[1..n -> {[Suggestion(i, c) EXCEPT !.confidence = x] :
                        i \in BookmarkIds, c \in {<<"A">>, <<"A", SEP, "B">>, Root},
                        x \in {3, 9}}] : n \in 0..2}

\* identifyConflicts(suggestions, currentBookmarks) of either organizer
IdentifyConflicts ==
    /\ hpc = "idle"
    /\ \E nodes \in Trees, suggestions \in ConflictSuggestionLists :
          /\ helperTree' = nodes
          /\ helperSuggestions' = suggestions
          /\ \/ /\ helperOut' = identifyConflicts(suggestions, nodes)
                /\ hpc' = "conflicts"
             \/ /\ helperOut' = identifyConflictsGated(suggestions, nodes)
                /\ hpc' = "conflicts gated"
    /\ UNCHANGED <<helperHierarchy, applyVars, dupVars, logs, parseVars,
                   orgVars, fetchVars, factoryVars, ctxVars, formVars, modalVars>>

\* the categories generateFolderStructure is given: paths of one to three
\* names, and a path that starts with the separator
FolderCategories ==
    {<<"Tech">>, <<"Dev">>, <<"Tech", SEP, "AI">>, <<"Tech", SEP, "AI", SEP, "Dev">>,
     <<SEP, "AI">>}

FolderSuggestionLists ==
    UNION {[1..n -> {Suggestion(1, c) : c \in FolderCategories}] : n \in 0..3}

\* generateFolderStructure(suggestions, createHierarchy)
GenerateFolderStructure ==
    /\ hpc = "idle"
    /\ \E suggestions \in FolderSuggestionLists, createHierarchy \in BOOLEAN :
          /\ helperSuggestions' = suggestions
          /\ helperHierarchy' = createHierarchy
          /\ helperOut' = generateFolderStructure(suggestions, createHierarchy)
    /\ hpc' = "folders"
    /\ UNCHANGED <<helperTree, applyVars, dupVars, logs, parseVars,
                   orgVars, fetchVars, factoryVars, ctxVars, formVars, modalVars>>

\* the bookmarks of a forest, each with the names of the folders above it, in
\* display order: children before the following siblings
RECURSIVE Placed(_, _)
Placed(nodes, above) ==
    IF nodes = <<>> THEN <<>>
    ELSE (IF Head(nodes).type = "folder"
          THEN Placed(Head(nodes).children, Append(above, Head(nodes).name))
          ELSE <<[node |-> Head(nodes), above |-> above]>>)
         \o Placed(Tail(nodes), above)

(* C22: extractBookmarks(T) returns one entry per node of type bookmark of T,
   in depth-first display order and nothing else: the entry is the node with
   the ' > '-joined names of its ancestor folders added as currentPath, and
   no id appears twice. *)
C22_ExtractExactlyBookmarks ==
    hpc = "extracted" =>
        LET placed == Placed(helperTree, <<>>)
        IN  /\ Len(helperOut) = Len(placed)
            /\ \A k \in 1..Len(helperOut) :
                  /\ helperOut[k].type = "bookmark"
                  /\ helperOut[k].id = placed[k].node.id
                  /\ helperOut[k].currentPath = JoinPath(placed[k].above)
                  /\ [f \in DOMAIN placed[k].node |-> helperOut[k][f]] = placed[k].node
            /\ \A k, l \in 1..Len(helperOut) :
                  helperOut[k].id = helperOut[l].id => k = l

\* a bookmark in a folder before a bookmark at the root
C22_Witness ==
    /\ hpc = "extracted"
    /\ Len(helperOut) = 2
    /\ helperOut[1].currentPath \in FolderNames
    /\ helperOut[2].currentPath = <<>>

\* a bookmark two folders deep
C22_WitnessDeep ==
    /\ hpc = "extracted"
    /\ Len(helperOut) = 1
    /\ \E a, b \in FolderNames : helperOut[1].currentPath = a \o <<SEP>> \o b

\* the folder path of the bookmark with that id in the tree, in a list; empty
\* when the tree has no such bookmark
folderPathOf(nodes, id) ==
    LET placed == Placed(nodes, <<>>)
        at == {k \in 1..Len(placed) : placed[k].node.id = id}
    IN  IF at = {} THEN <<>> ELSE <<JoinPath(placed[CHOOSE k \in at : TRUE].above)>>

\* the suggestions for bookmarks of the tree whose folder path is not the
\* suggested category
RECURSIVE differing(_, _)
differing(suggestions, nodes) ==
    IF suggestions = <<>> THEN <<>>
    ELSE LET path == folderPathOf(nodes, Head(suggestions).bookmarkId)
         IN  (IF path # <<>> /\ path[1] # Head(suggestions).suggestedCategory
              THEN <<Head(suggestions)>> ELSE <<>>)
             \o differing(Tail(suggestions), nodes)

\* the conflicts reported for bookmarks of the tree
reportedInTree ==
    SelectSeq(helperOut, LAMBDA c : folderPathOf(helperTree, c.bookmarkId) # <<>>)

(* C24: for the suggestions that name a bookmark of the tree, identifyConflicts
   reports a conflict exactly for those whose suggestedCategory is not the
   ' > '-joined folder path of the bookmark, the empty path at the root, in
   the order of the suggestions and whatever their confidence. *)
C24_ConflictIffPathDiffers ==
    hpc \in {"conflicts", "conflicts gated"} =>
        LET expected == differing(helperSuggestions, helperTree)
        IN  /\ Len(reportedInTree) = Len(expected)
            /\ \A k \in 1..Len(expected) :
                  /\ reportedInTree[k].bookmarkId = expected[k].bookmarkId
                  /\ reportedInTree[k].suggestedCategory = expected[k].suggestedCategory

\* a bookmark at the root with the suggested category "Root": no conflict is
\* reported by the parallel organizer
C24_RootNotReported ==
    /\ hpc = "conflicts"
    /\ Len(helperSuggestions) = 1
    /\ folderPathOf(helperTree, helperSuggestions[1].bookmarkId) = <<<<>>>>
    /\ helperSuggestions[1].suggestedCategory = Root
    /\ helperOut = <<>>

NextHelpers ==
    \/ ExtractBookmarks
    \/ IdentifyConflicts
    \/ GenerateFolderStructure

SpecHelpers == InitHelpers /\ [][NextHelpers]_vars

\* the ' > '-joined prefixes of a category
prefixesOf(category) ==
    LET parts == SplitPath(category)
    IN  {JoinPath(SubSeq(parts, 1, k)) : k \in 1..Len(parts)}

\* what the claim expects in the list: the prefixes of every category, or
\* the categories themselves
expectedFolders ==
    UNION {IF helperHierarchy THEN prefixesOf(helperSuggestions[i].suggestedCategory)
           ELSE {helperSuggestions[i].suggestedCategory} : i \in 1..Len(helperSuggestions)}

\* the list is in ascending order without a repeated entry
strictlyAscending(list) == \A k \in 1..(Len(list) - 1) : StringLess(list[k], list[k + 1])

\* a category whose first segment is empty
startsWithSeparator(category) == category # <<>> /\ category[1] = SEP

(* C25: generateFolderStructure returns a list in ascending order with no
   repeated entry; without createHierarchy its entries are exactly the
   suggested categories, and with createHierarchy, when no category starts
   with ' > ', exactly the ' > '-joined prefixes of the categories. *)
C25_FoldersSortedPrefixClosed ==
    hpc = "folders" =>
        /\ strictlyAscending(helperOut)
        /\ (\/ \lnot helperHierarchy
            \/ \A i \in 1..Len(helperSuggestions) :
                  \lnot startsWithSeparator(helperSuggestions[i].suggestedCategory))
             => Range(helperOut) = expectedFolders

(* C25 as stated: the list is in ascending order with no repeated entry and
   holds exactly the prefixes of every category with createHierarchy, and
   exactly the categories without. *)
C25_FoldersExactlyPrefixes ==
    hpc = "folders" =>
        /\ strictlyAscending(helperOut)
        /\ Range(helperOut) = expectedFolders

\* three suggestions, two of them with one category, and the prefixes of a
\* path of three names
C25_Witness ==
    /\ hpc = "folders"
    /\ helperHierarchy
    /\ Len(helperSuggestions) = 3
    /\ helperSuggestions[1].suggestedCategory = <<"Tech", SEP, "AI", SEP, "Dev">>
    /\ helperSuggestions[2].suggestedCategory = <<"Dev">>
    /\ helperSuggestions[3].suggestedCategory = <<"Dev">>
    /\ helperOut = <<<<"Dev">>, <<"Tech">>, <<"Tech", SEP, "AI">>,
                     <<"Tech", SEP, "AI", SEP, "Dev">>>>

\* without createHierarchy the category is the one entry
C25_WitnessFlat ==
    /\ hpc = "folders"
    /\ \lnot helperHierarchy
    /\ helperOut = <<<<"Tech", SEP, "AI">>>>

(***************************************************************************)
(* AiConfigProvider: the store of configurations and groups                *)
(* (src/unnamed/part_000).  Every handler queues functional updates of the *)
(* state, and React commits them before the next event is handled, so a    *)
(* handler is one step over the committed state.  crypto.randomUUID() is a *)
(* fresh id: the next entry of a list of ids nobody else holds.            *)
(***************************************************************************)
MaxCtxConfigs == 3
MaxCtxGroups == 2

CtxGroupIdList == <<"g1", "g2", "g3">>

idsOf(list) == {list[i].id : i \in 1..Len(list)}

\* the lists of distinct ids of existing configurations, what a caller who
\* builds a group from the configurations on screen can hand over
MemberLists(configs) ==
    {ids \in UNION {[1..n -> idsOf(configs)] : n \in 0..Len(configs)} :
        \A i, j \in 1..Len(ids) : i # j => ids[i] # ids[j]}

\* deleteAiConfig without the update of the groups
removeFromGroupsSkipped(prevGroups, id) == prevGroups

\* part_000:94-99, the updater deleteAiConfig hands to setAiConfigGroups
removeFromGroups(prevGroups, id) ==
    [g \in 1..Len(prevGroups) |->
        [prevGroups[g] EXCEPT
            !.aiConfigIds = SelectSeq(@, LAMBDA configId : configId # id)]]

InitCtx ==
    /\ ApplyIdle /\ DupIdle /\ ParseIdle /\ OrgIdle /\ FetchIdle /\ FactoryIdle /\ HelperIdle
    /\ FormIdle /\ ModalIdle
    /\ logs = <<>>
    /\ ctxAiConfigs = <<>> /\ ctxAiConfigGroups = <<>>
    /\ activeAiConfigId = <<>> /\ activeAiConfigGroupId = <<>>
    /\ configsAdded = 0 /\ groupsAdded = 0
    /\ xpc = "mounted"

\* part_000:67-77
AddAiConfig ==
    /\ xpc = "mounted"
    /\ configsAdded < MaxCtxConfigs
    /\ LET newConfig == AiConfig(ConfigIdList[configsAdded + 1]) IN
        /\ ctxAiConfigs' = Append(ctxAiConfigs, newConfig)
        /\ activeAiConfigId' = IF Len(ctxAiConfigs) = 0 THEN <<newConfig.id>>
                               ELSE activeAiConfigId
    /\ configsAdded' = configsAdded + 1
    /\ UNCHANGED <<ctxAiConfigGroups, activeAiConfigGroupId, groupsAdded, xpc>>
    /\ UNCHANGED <<applyVars, dupVars, logs, parseVars, orgVars, fetchVars,
                   factoryVars, helperVars, formVars, modalVars>>

\* part_000:87-99; the id is any id ever handed out, present or not
DeleteAiConfig ==
    /\ xpc = "mounted"
    /\ \E n \in 1..configsAdded :
        LET id == ConfigIdList[n] IN
        /\ ctxAiConfigs' = SelectSeq(ctxAiConfigs, LAMBDA config : config.id # id)
        /\ activeAiConfigId' = IF activeAiConfigId = <<id>> THEN <<>>
                               ELSE activeAiConfigId
        /\ ctxAiConfigGroups' = removeFromGroups(ctxAiConfigGroups, id)
    /\ UNCHANGED <<activeAiConfigGroupId, configsAdded, groupsAdded, xpc>>
    /\ UNCHANGED <<applyVars, dupVars, logs, parseVars, orgVars, fetchVars,
                   factoryVars, helperVars, formVars, modalVars>>

\* part_000:107-117, with a member list built from the configurations held
AddAiConfigGroup ==
    /\ xpc = "mounted"
    /\ groupsAdded < MaxCtxGroups
    /\ \E aiConfigIds \in MemberLists(ctxAiConfigs) :
        LET newGroup == AiConfigGroup(CtxGroupIdList[groupsAdded + 1], aiConfigIds) IN
        /\ ctxAiConfigGroups' = Append(ctxAiConfigGroups, newGroup)
        /\ activeAiConfigGroupId' = IF Len(ctxAiConfigGroups) = 0 THEN <<newGroup.id>>
                                    ELSE activeAiConfigGroupId
    /\ groupsAdded' = groupsAdded + 1
    /\ UNCHANGED <<ctxAiConfigs, activeAiConfigId, configsAdded, xpc>>
    /\ UNCHANGED <<applyVars, dupVars, logs, parseVars, orgVars, fetchVars,
                   factoryVars, helperVars, formVars, modalVars>>

\* part_000:119-125, the update being a new member list built from the
\* configurations held; an id no group has leaves the list as it is
UpdateAiConfigGroup ==
    /\ xpc = "mounted"
    /\ \E n \in 1..groupsAdded, aiConfigIds \in MemberLists(ctxAiConfigs) :
        LET id == CtxGroupIdList[n] IN
        ctxAiConfigGroups' =
            [g \in 1..Len(ctxAiConfigGroups) |->
                IF ctxAiConfigGroups[g].id = id
                THEN [ctxAiConfigGroups[g] EXCEPT !.aiConfigIds = aiConfigIds]
                ELSE ctxAiConfigGroups[g]]
    /\ UNCHANGED <<ctxAiConfigs, activeAiConfigId, activeAiConfigGroupId,
                   configsAdded, groupsAdded, xpc>>
    /\ UNCHANGED <<applyVars, dupVars, logs, parseVars, orgVars, fetchVars,
                   factoryVars, helperVars, formVars, modalVars>>

\* part_000:127-132
DeleteAiConfigGroup ==
    /\ xpc = "mounted"
    /\ \E n \in 1..groupsAdded :
        LET id == CtxGroupIdList[n] IN
        /\ ctxAiConfigGroups' = SelectSeq(ctxAiConfigGroups, LAMBDA group : group.id # id)
        /\ activeAiConfigGroupId' = IF activeAiConfigGroupId = <<id>> THEN <<>>
                                    ELSE activeAiConfigGroupId
    /\ UNCHANGED <<ctxAiConfigs, activeAiConfigId, configsAdded, groupsAdded, xpc>>
    /\ UNCHANGED <<applyVars, dupVars, logs, parseVars, orgVars, fetchVars,
                   factoryVars, helperVars, formVars, modalVars>>

NextCtx ==
    \/ AddAiConfig
    \/ DeleteAiConfig
    \/ AddAiConfigGroup
    \/ UpdateAiConfigGroup
    \/ DeleteAiConfigGroup

SpecCtx == InitCtx /\ [][NextCtx]_vars

(***************************************************************************)
(* Claims about the store                                                  *)
(***************************************************************************)
membersOfGroups(groups) ==
    UNION {Range(groups[g].aiConfigIds) : g \in 1..Len(groups)}

(* C27: when groups are built from the configurations held, every id in
   every group's aiConfigIds is the id of a configuration held, and a step
   that deletes the configuration id leaves every group with its former
   members other than id, in their former order. *)
C27_GroupMembersExist ==
    /\ [](xpc = "mounted" =>
            membersOfGroups(ctxAiConfigGroups) \subseteq idsOf(ctxAiConfigs))
    /\ [][Len(ctxAiConfigs') < Len(ctxAiConfigs) =>
            \E id \in idsOf(ctxAiConfigs) \ idsOf(ctxAiConfigs') :
                /\ Len(ctxAiConfigGroups') = Len(ctxAiConfigGroups)
                /\ \A g \in 1..Len(ctxAiConfigGroups) :
                    /\ ctxAiConfigGroups'[g].id = ctxAiConfigGroups[g].id
                    /\ ctxAiConfigGroups'[g].aiConfigIds =
                         SelectSeq(ctxAiConfigGroups[g].aiConfigIds,
                                   LAMBDA configId : configId # id)]_vars

\* c1 was deleted while two groups held it: both kept their other members in
\* the order they had
C27_Witness ==
    /\ xpc = "mounted"
    /\ idsOf(ctxAiConfigs) = {"c2", "c3"}
    /\ Len(ctxAiConfigGroups) = 2
    /\ ctxAiConfigGroups[1].aiConfigIds = <<"c3", "c2">>
    /\ ctxAiConfigGroups[2].aiConfigIds = <<"c2">>

(***************************************************************************)
(* AiConfigModal: the configuration form (src/unnamed/part_002:663-760,    *)
(* the same handlers in src/unnamed/part_007:655-770) over the store of    *)
(* AiConfigProvider.  A text is the sequence of its characters.  The form  *)
(* fields are what the user typed by the time of the submit; apiKey and    *)
(* createdAt take no part in the validation and are left out.              *)
(***************************************************************************)
\* String.prototype.trim over the characters in use
RECURSIVE trimStart(_)
trimStart(s) == IF s # <<>> /\ Head(s) = " " THEN trimStart(Tail(s)) ELSE s

RECURSIVE trimEnd(_)
trimEnd(s) ==
    IF s # <<>> /\ s[Len(s)] = " " THEN trimEnd(SubSeq(s, 1, Len(s) - 1)) ELSE s

trim(s) == trimEnd(trimStart(s))

\* String.prototype.toLowerCase over the characters in use
toLowerCase(s) == [i \in 1..Len(s) |-> IF s[i] = "A" THEN "a" ELSE s[i]]

\* what the user may have in the name field at the submit
FormNames ==
    {<<>>, <<" ">>, <<"a">>, <<"A">>, <<"b">>, <<" ", "a">>, <<"A", " ">>}

FormProviders == {"gemini", "custom"}
FormBaseURLs == {<<>>, <<"u">>}
FormModelIds == {<<>>, <<"m">>}

\* part_002:714-724, the keys of newErrors
validateFormErrors(existingConfigs, editingConfig, name, selectedProvider, baseURL, modelId) ==
    (IF trim(name) = <<>> THEN {"name"}
     ELSE IF \E i \in 1..Len(existingConfigs) :
                /\ <<existingConfigs[i].id>> # editingConfig
                /\ toLowerCase(existingConfigs[i].name) = toLowerCase(name)
          THEN {"name"}
          ELSE {})
    \cup (IF trim(modelId) = <<>> THEN {"modelId"} ELSE {})
    \cup (IF selectedProvider = "custom" /\ trim(baseURL) = <<>> THEN {"baseURL"} ELSE {})

InitForm ==
    /\ ApplyIdle /\ DupIdle /\ ParseIdle /\ OrgIdle /\ FetchIdle /\ FactoryIdle /\ HelperIdle
    /\ ModalIdle
    /\ logs = <<>>
    /\ ctxAiConfigs = <<>> /\ ctxAiConfigGroups = <<>>
    /\ activeAiConfigId = <<>> /\ activeAiConfigGroupId = <<>>
    /\ configsAdded = 0 /\ groupsAdded = 0
    /\ xpc = "form"
    /\ editingAiConfig = <<>> /\ formErrors = {}

\* part_002:753-757 handleEdit: the parent's setEditingAiConfig(config)
HandleEdit ==
    /\ xpc = "form"
    /\ \E i \in 1..Len(ctxAiConfigs) : editingAiConfig' = <<ctxAiConfigs[i].id>>
    /\ UNCHANGED <<formErrors, ctxVars>>
    /\ UNCHANGED <<applyVars, dupVars, logs, parseVars, orgVars, fetchVars,
                   factoryVars, helperVars, modalVars>>

\* part_002:748-751 handleAddNew and 742-746 handleClose: resetForm clears the
\* errors and the editing state
HandleAddNew ==
    /\ xpc = "form"
    /\ editingAiConfig # <<>> \/ formErrors # {}
    /\ editingAiConfig' = <<>>
    /\ formErrors' = {}
    /\ UNCHANGED ctxVars
    /\ UNCHANGED <<applyVars, dupVars, logs, parseVars, orgVars, fetchVars,
                   factoryVars, helperVars, modalVars>>

\* part_002:726-741 handleSubmit, with handleSaveAiConfig (408-417) and the
\* provider's addAiConfig (part_000:67-77) and updateAiConfig (part_000:79-85)
HandleSubmit(name, selectedProvider, baseURL, modelId) ==
    /\ xpc = "form"
    /\ LET newErrors == validateFormErrors(ctxAiConfigs, editingAiConfig, name,
                                           selectedProvider, baseURL, modelId)
           config == [name |-> trim(name), provider |-> selectedProvider,
                      baseURL |-> trim(baseURL), modelId |-> trim(modelId)]
       IN  IF newErrors # {}
           THEN /\ formErrors' = newErrors
                /\ UNCHANGED <<editingAiConfig, ctxVars>>
           ELSE /\ IF editingAiConfig # <<>>
                   THEN /\ ctxAiConfigs' =
                              [i \in 1..Len(ctxAiConfigs) |->
                                  IF ctxAiConfigs[i].id = editingAiConfig[1]
                                  THEN [id |-> ctxAiConfigs[i].id] @@ config
                                  ELSE ctxAiConfigs[i]]
                        /\ UNCHANGED <<activeAiConfigId, configsAdded>>
                   ELSE /\ configsAdded < MaxCtxConfigs
                        /\ ctxAiConfigs' =
                              Append(ctxAiConfigs,
                                     [id |-> ConfigIdList[configsAdded + 1]] @@ config)
                        /\ activeAiConfigId' =
                              IF Len(ctxAiConfigs) = 0
                              THEN <<ConfigIdList[configsAdded + 1]>>
                              ELSE activeAiConfigId
                        /\ configsAdded' = configsAdded + 1
                /\ editingAiConfig' = <<>>
                /\ formErrors' = {}
                /\ UNCHANGED <<ctxAiConfigGroups, activeAiConfigGroupId, groupsAdded, xpc>>
    /\ UNCHANGED <<applyVars, dupVars, logs, parseVars, orgVars, fetchVars,
                   factoryVars, helperVars, modalVars>>

NextForm ==
    \/ HandleEdit
    \/ HandleAddNew
    \/ \E name \in FormNames, selectedProvider \in FormProviders,
          baseURL \in FormBaseURLs, modelId \in FormModelIds :
            HandleSubmit(name, selectedProvider, baseURL, modelId)

SpecForm == InitForm /\ [][NextForm]_vars

(* C36: after any sequence of saves through the form, each accepted by
   validateForm, no two stored configurations have names that are equal
   ignoring case. *)
C36_NamesUniqueIgnoringCase ==
    xpc = "form" =>
        \A i, j \in 1..Len(ctxAiConfigs) :
            i # j => toLowerCase(ctxAiConfigs[i].name) # toLowerCase(ctxAiConfigs[j].name)

\* names typed without surrounding blanks: two configurations stored, their
\* names differ ignoring case
C36_DistinctNamesStored ==
    /\ xpc = "form"
    /\ Len(ctxAiConfigs) = 2
    /\ ctxAiConfigs[1].name = <<"a">>
    /\ ctxAiConfigs[2].name = <<"b">>

(***************************************************************************)
(* AdvancedOrganizationModal (src/context/AiConfigContext.tsx:142-245)     *)
(* with the organizeBookmarks of its useAiApi hook                         *)
(* (src/unnamed/part_006:223-249).  The parent renders the modal only      *)
(* while it is open (part_002:591-598), so closing unmounts it and the     *)
(* next opening starts from the initial state; what a call still in        *)
(* flight sets on the unmounted component is dropped.  A token is the      *)
(* number of the startOperation call that created it.                      *)
(***************************************************************************)
MaxRuns == 5

InitModal ==
    /\ ApplyIdle /\ DupIdle /\ ParseIdle /\ OrgIdle /\ FetchIdle /\ FactoryIdle /\ HelperIdle
    /\ CtxIdle /\ FormIdle
    /\ logs = <<>>
    /\ modalStep = "config" /\ modalAbortController = <<>> /\ isLoading = FALSE
    /\ processingLogs = <<>> /\ running = 0 /\ controllersMade = 0
    /\ abortedControllers = {} /\ lastHandler = "none"

\* AiConfigContext.tsx:186-201 up to the await, with the hook's synchronous
\* part (part_006:227-238): the button is enabled only while not loading
\* (line 343), a new organizer is built and its startOperation creates the
\* token of this run
HandleStartAnalysis ==
    /\ modalStep = "config"
    /\ \lnot isLoading
    /\ controllersMade < MaxRuns
    /\ modalStep' = "analyzing"
    /\ processingLogs' = <<>>
    /\ isLoading' = TRUE
    /\ controllersMade' = controllersMade + 1
    /\ running' = controllersMade + 1
    /\ lastHandler' = "start"
    /\ UNCHANGED <<modalAbortController, abortedControllers>>
    /\ UNCHANGED <<applyVars, dupVars, logs, parseVars, orgVars, fetchVars,
                   factoryVars, helperVars, ctxVars, formVars>>

\* AiConfigContext.tsx:202-213 after the await resolved (part_006:240-247)
AnalysisResolves ==
    /\ modalStep # "off"
    /\ running # 0
    /\ modalAbortController' = <<running>>
    /\ modalStep' = "review"
    /\ isLoading' = FALSE
    /\ running' = 0
    /\ lastHandler' = "resolved"
    /\ UNCHANGED <<processingLogs, controllersMade, abortedControllers>>
    /\ UNCHANGED <<applyVars, dupVars, logs, parseVars, orgVars, fetchVars,
                   factoryVars, helperVars, ctxVars, formVars>>

\* AiConfigContext.tsx:214-217 after the await rejected (part_006:241-247)
AnalysisRejects ==
    /\ modalStep # "off"
    /\ running # 0
    /\ modalStep' = "config"
    /\ isLoading' = FALSE
    /\ running' = 0
    /\ lastHandler' = "rejected"
    /\ UNCHANGED <<modalAbortController, processingLogs, controllersMade,
                   abortedControllers>>
    /\ UNCHANGED <<applyVars, dupVars, logs, parseVars, orgVars, fetchVars,
                   factoryVars, helperVars, ctxVars, formVars>>

\* AiConfigContext.tsx:220-231; the button is on screen in the analyzing step
\* (lines 362-398)
HandleCancelAnalysis ==
    /\ modalStep = "analyzing"
    /\ IF modalAbortController # <<>>
       THEN /\ abortedControllers' = abortedControllers \cup {modalAbortController[1]}
            /\ processingLogs' = Append(processingLogs, "Analysis cancelled by user")
            /\ modalStep' = "config"
       ELSE UNCHANGED <<abortedControllers, processingLogs, modalStep>>
    /\ lastHandler' = "cancel"
    /\ UNCHANGED <<modalAbortController, isLoading, running, controllersMade>>
    /\ UNCHANGED <<applyVars, dupVars, logs, parseVars, orgVars, fetchVars,
                   factoryVars, helperVars, ctxVars, formVars>>

\* AiConfigContext.tsx:451, the way back from the review
BackToConfig ==
    /\ modalStep = "review"
    /\ modalStep' = "config"
    /\ lastHandler' = "back"
    /\ UNCHANGED <<modalAbortController, isLoading, processingLogs, running,
                   controllersMade, abortedControllers>>
    /\ UNCHANGED <<applyVars, dupVars, logs, parseVars, orgVars, fetchVars,
                   factoryVars, helperVars, ctxVars, formVars>>

\* onClose (AiConfigContext.tsx:259, 336) and the next opening: the modal is
\* mounted anew (part_002:591-598)
Reopen ==
    /\ modalStep # "off"
    /\ modalStep' = "config"
    /\ modalAbortController' = <<>>
    /\ isLoading' = FALSE
    /\ processingLogs' = <<>>
    /\ running' = 0
    /\ lastHandler' = "reopen"
    /\ UNCHANGED <<controllersMade, abortedControllers>>
    /\ UNCHANGED <<applyVars, dupVars, logs, parseVars, orgVars, fetchVars,
                   factoryVars, helperVars, ctxVars, formVars>>

NextModal ==
    \/ HandleStartAnalysis
    \/ AnalysisResolves
    \/ AnalysisRejects
    \/ HandleCancelAnalysis
    \/ BackToConfig
    \/ Reopen

SpecModal == InitModal /\ [][NextModal]_vars

(* C38: a cancel requested from the modal while an analysis is running
   aborts the token of that running operation, and no token of a run that
   has already finished. *)
C38_CancelAbortsRunning ==
    [][(lastHandler' = "cancel" /\ running # 0) =>
            /\ running \in abortedControllers'
            /\ abortedControllers' \ abortedControllers \subseteq {running}]_vars

\* the cancel of a running second analysis aborted the token of the first,
\* which had finished
C38_FinishedRunAborted ==
    /\ lastHandler = "cancel"
    /\ running = 2
    /\ abortedControllers = {1}

====
